---- MODULE Spec2Model ----
(***************************************************************************)
(* UnlimitedIPList (src/unlimitediplist/unlimitediplist.py): a list of     *)
(* IPv4/IPv6 CIDRs kept sorted and chunked, with a bisection lookup.       *)
(*                                                                         *)
(* Texts.  A Python str is modelled by what split("/") and split(":")      *)
(* make of it: a record [ws, ip, sfx] where ws says whether the string     *)
(* carries surrounding whitespace (strip() clears it), ip is the list of   *)
(* ":"-separated tokens of the part before the first "/", and sfx is the   *)
(* list of the parts after each "/".  Tokens are records [t, v]:           *)
(*   t = "e"  the empty token (what "::" leaves between colons)            *)
(*   t = "h"  a zero-padded hextet of value v      ("0000", "0001")        *)
(*   t = "u"  an unpadded hextet / plain number v  ("0", "1")              *)
(*   t = "d"  a canonical dotted quad of value v   ("1.0.1.1")             *)
(*   t = "x"  a token no parser accepts            ("g")                   *)
(*   t = "y"  a dotted token no parser accepts     ("9.9.9.9")             *)
(* A part after "/" is [ok, n]: the decimal numeral of n, or (ok = FALSE)  *)
(* a text int() rejects.                                                   *)
(*                                                                         *)
(* Widths.  TLC's integers are 32-bit, so the address widths are scaled:   *)
(* every octet and every hextet carries ONE bit.  An IPv4 address is 4     *)
(* octets = V4Bits = 4 bits (the source's 32), an IPv6 address 8 hextets   *)
(* = V6Bits = 8 bits (the source's 128); the source's 2**32 is 2^V4Bits.   *)
(***************************************************************************)
EXTENDS Integers, Sequences, FiniteSets, TLC

VARIABLES
    normalize_invalid_cidr,  \* constructor option, fixed for the instance
    raise_on_error,          \* constructor option, fixed for the instance
    cidrs,                   \* self._cidrs
    list_chunks,             \* self.__list_chunks
    first_ip_chunks,         \* self.__first_ip_chunks
    last_ip_chunks,          \* self.__last_ip_chunks
    list_index,              \* self.__list_index
    discarded_cidrs,         \* self.discarded_cidrs
    op,                      \* the last public call
    arg,                     \* its text argument(s), as a list
    argInt,                  \* its integer argument (lookup by integer), else NoneInt
    result,                  \* what it returned or raised
    match,                   \* the CIDR a lookup returned, as a list of 0 or 1 texts
    mutations,               \* the mutating calls in progress in other threads, by thread
    lookup                   \* the lookup in progress in another thread

vars == <<normalize_invalid_cidr, raise_on_error, cidrs, list_chunks,
          first_ip_chunks, last_ip_chunks, list_index, discarded_cidrs,
          op, arg, argInt, result, match, mutations, lookup>>

index == <<list_chunks, first_ip_chunks, last_ip_chunks, list_index>>

-----------------------------------------------------------------------------
(* Program constants (scaled widths, see above) and the model's bounds.     *)

V4Bits == 4
V6Bits == 8
HextetCount == 8
MinChunkSize == 100
MaxChunkSize == 5000
NoneInt == -1

MaxLen == 4

-----------------------------------------------------------------------------
(* Generic helpers.                                                         *)

RECURSIVE Pow2(_)
Pow2(n) == IF n <= 0 THEN 1 ELSE 2 * Pow2(n - 1)

RECURSIVE BitAnd(_, _)
BitAnd(a, b) ==
    IF a = 0 \/ b = 0 THEN 0
    ELSE 2 * BitAnd(a \div 2, b \div 2) + (IF a % 2 = 1 /\ b % 2 = 1 THEN 1 ELSE 0)

RECURSIVE BitOr(_, _)
BitOr(a, b) ==
    IF a = 0 THEN b
    ELSE IF b = 0 THEN a
    ELSE 2 * BitOr(a \div 2, b \div 2) + (IF a % 2 = 1 \/ b % 2 = 1 THEN 1 ELSE 0)

Range(s) == {s[i] : i \in 1..Len(s)}

Contains(s, x) == \E i \in 1..Len(s) : s[i] = x

RECURSIVE Flatten(_)
Flatten(ss) == IF ss = <<>> THEN <<>> ELSE Head(ss) \o Flatten(Tail(ss))

RECURSIVE Dedup(_)
Dedup(s) ==
    IF s = <<>> THEN <<>>
    ELSE LET r == Dedup(SubSeq(s, 1, Len(s) - 1))
             x == s[Len(s)]
         IN  IF Contains(r, x) THEN r ELSE Append(r, x)

Orders(S) ==
    {f \in [1..Cardinality(S) -> S] : \A i, j \in 1..Cardinality(S) : f[i] = f[j] => i = j}

\* a variant of RemoveFirst that cuts the list at the first occurrence
RemoveFirst_truncating(s, x) ==
    IF ~Contains(s, x) THEN s
    ELSE LET i == CHOOSE k \in 1..Len(s) : s[k] = x /\ \A j \in 1..(k - 1) : s[j] # x
         IN  SubSeq(s, 1, i - 1)

\* list.remove(x), when x may be absent
RemoveFirst(s, x) ==
    IF ~Contains(s, x) THEN s
    ELSE LET i == CHOOSE k \in 1..Len(s) : s[k] = x /\ \A j \in 1..(k - 1) : s[j] # x
         IN  SubSeq(s, 1, i - 1) \o SubSeq(s, i + 1, Len(s))

-----------------------------------------------------------------------------
(* Texts.                                                                   *)

Tok(t, v) == [t |-> t, v |-> v]
E0 == Tok("e", 0)
H(v) == Tok("h", v)
U(v) == Tok("u", v)
D(v) == Tok("d", v)
Num(n) == [ok |-> TRUE, n |-> n]
BadNum == [ok |-> FALSE, n |-> 0]

Text(ws, ip, sfx) == [ws |-> ws, ip |-> ip, sfx |-> sfx]
NoneText == Text(FALSE, <<>>, <<>>)
IsNone(x) == x.ip = <<>>

strip(s) == [s EXCEPT !.ws = FALSE]
IsBlank(s) == s.ip = <<E0>> /\ s.sfx = <<>>
SlashIn(s) == s.sfx # <<>>
ColonIn(s) == Len(s.ip) > 1
DotIn(s) == \E i \in 1..Len(s.ip) : s.ip[i].t \in {"d", "y", "q"}
IpPart(s) == Text(s.ws, s.ip, <<>>)

-----------------------------------------------------------------------------
(* The C library's parsers, at the scaled widths.                           *)

\* socket.inet_aton on the token list of an address text: a dotted quad, or a
\* plain number ("1" is 0.0.0.1); NoneInt when it raises.
InetAton(ip) ==
    IF Len(ip) = 1 /\ ip[1].t \in {"d", "u", "h"} THEN ip[1].v ELSE NoneInt

RECURSIVE GroupsValue(_)
GroupsValue(g) ==
    IF g = <<>> THEN 0 ELSE 2 * GroupsValue(SubSeq(g, 1, Len(g) - 1)) + g[Len(g)]

\* the hextets of a colon text: a dotted quad in the last place (token "q",
\* worth two hextets) stands for the last two of them
ExpandQuad(ip) ==
    IF Len(ip) > 1 /\ ip[Len(ip)].t = "q"
    THEN SubSeq(ip, 1, Len(ip) - 1) \o <<U(ip[Len(ip)].v \div 2), U(ip[Len(ip)].v % 2)>>
    ELSE ip

\* socket.inet_pton(AF_INET6, ...) on hextets: eight of them, or fewer around
\* one "::"; NoneInt when it raises.
InetPtonHextets(ip) ==
    LET n  == Len(ip)
        em == {i \in 1..n : ip[i].t = "e"}
        hx == {i \in 1..n : ip[i].t \in {"h", "u"}}
        Vals(lo, hi) == [k \in 1..(hi - lo + 1) |-> ip[lo + k - 1].v]
        Zeros(k) == [j \in 1..k |-> 0]
        Gap(lo, hi) ==
            LET left  == Vals(1, lo - 1)
                right == Vals(hi + 1, n)
            IN  IF Len(left) + Len(right) > HextetCount - 1 THEN NoneInt
                ELSE GroupsValue(left \o Zeros(HextetCount - Len(left) - Len(right)) \o right)
    IN  IF em \cup hx # 1..n \/ n = 0 THEN NoneInt
        ELSE IF em = {} THEN (IF n = HextetCount THEN GroupsValue(Vals(1, n)) ELSE NoneInt)
        ELSE IF n < 3 THEN NoneInt
        ELSE IF n = 3 /\ em = {1, 2, 3} THEN 0
        ELSE IF em = {1, 2} THEN Gap(1, 2)
        ELSE IF em = {n - 1, n} THEN Gap(n - 1, n)
        ELSE IF \E i \in 2..(n - 1) : em = {i}
             THEN LET i == CHOOSE k \in 2..(n - 1) : em = {k} IN Gap(i, i)
        ELSE NoneInt

\* socket.inet_pton(AF_INET6, ...)
InetPton(ip) == InetPtonHextets(ExpandQuad(ip))

-----------------------------------------------------------------------------
(* Address and CIDR conversions of the class.  strip() changes nothing but   *)
(* the whitespace flag of a text, so the parsers read .ip and .sfx as given. *)

ip_to_int(ipaddr) ==
    IF SlashIn(ipaddr) THEN NoneInt
    ELSE IF InetAton(ipaddr.ip) # NoneInt THEN InetAton(ipaddr.ip)
    ELSE InetPton(ipaddr.ip)

int_to_ip(iplong) ==
    IF iplong <= Pow2(V4Bits)
    THEN (IF iplong >= 0 /\ iplong < Pow2(V4Bits)
          THEN Text(FALSE, <<D(iplong)>>, <<>>)
          ELSE NoneText)
    ELSE IF iplong < Pow2(V6Bits)
    THEN Text(FALSE, [i \in 1..HextetCount |-> H((iplong \div Pow2(HextetCount - i)) % 2)], <<>>)
    ELSE NoneText

is_valid_ipaddr(ipaddr) == ip_to_int(strip(ipaddr)) # NoneInt

is_valid_iplong(iplong) == ~IsNone(int_to_ip(iplong))

RECURSIVE ReplaceTripleColon(_, _)
ReplaceTripleColon(t, k) ==
    \* str.replace(":::", "::") on the joined text, scanning from colon k
    IF k > Len(t) - 3 THEN t
    ELSE IF t[k + 1].t = "e" /\ t[k + 2].t = "e"
         THEN ReplaceTripleColon(SubSeq(t, 1, k) \o SubSeq(t, k + 2, Len(t)), k + 2)
         ELSE ReplaceTripleColon(t, k + 1)

RECURSIVE ZeroRun(_, _, _)
ZeroRun(h, i, st) ==
    \* the loop "for i in range(8)" of compress_ipv6; st = <<best_start, best_len,
    \* curr_start, curr_len>>, positions counted from 0 as in the source
    IF i = HextetCount
    THEN (IF st[4] > st[2] THEN <<st[3], st[4]>> ELSE <<st[1], st[2]>>)
    ELSE IF h[i + 1] = H(0)
         THEN (IF st[3] = -1 THEN ZeroRun(h, i + 1, <<st[1], st[2], i, 1>>)
               ELSE ZeroRun(h, i + 1, <<st[1], st[2], st[3], st[4] + 1>>))
         ELSE (IF st[4] > st[2] THEN ZeroRun(h, i + 1, <<st[3], st[4], -1, -1>>)
               ELSE ZeroRun(h, i + 1, <<st[1], st[2], -1, -1>>))

\* compress_ipv6, lines 198-200: "" becomes "0000", short lists are filled
PadHextets(h) ==
    [i \in 1..Len(h) |-> IF h[i].t = "e" THEN H(0) ELSE h[i]]
    \o (IF Len(h) < HextetCount THEN [i \in 1..(HextetCount - Len(h)) |-> H(0)] ELSE <<>>)

\* compress_ipv6, lines 216-221: the best run of zeros replaced by ""
Collapse(h, best_start, best_len) ==
    IF best_len > 1
    THEN (IF best_start = 0 THEN <<E0>> ELSE <<>>)
         \o SubSeq(h, 1, best_start) \o <<E0>>
         \o SubSeq(h, best_start + best_len + 1, Len(h))
         \o (IF best_start + best_len = HextetCount THEN <<E0>> ELSE <<>>)
    ELSE h

CollapseBest(h, best) == Collapse(h, best[1], best[2])

CollapsePadded(h) == CollapseBest(h, ZeroRun(h, 0, <<-1, -1, -1, -1>>))

compress_ipv6(hextets) ==
    Text(FALSE, ReplaceTripleColon(CollapsePadded(PadHextets(hextets.ip)), 1), <<>>)

normalize_cidr_suffix(ipaddr) ==
    IF SlashIn(ipaddr) THEN strip(ipaddr)
    ELSE IF ~ColonIn(ipaddr) THEN Text(FALSE, ipaddr.ip, <<Num(V4Bits)>>)
    ELSE Text(FALSE, ipaddr.ip, <<Num(V6Bits)>>)

\* ((1 << prefix) - 1) << (bits - prefix)
Mask(prefix, bits) == (Pow2(prefix) - 1) * Pow2(bits - prefix)

\* ip_int & ~mask, for ip_int >= 0
AndNot(ip_int, mask) == ip_int - BitAnd(ip_int, mask)

\* is_valid_cidr, lines 99-106 and 108-115: ip_int is what the parser made of
\* ip_part (NoneInt: it raised), bits the width of the family
NetworkAddressOk(ip_int, prefix, bits, strict) ==
    IF ip_int = NoneInt THEN FALSE
    ELSE IF ~(0 <= prefix /\ prefix <= bits) THEN FALSE
    ELSE IF strict THEN AndNot(ip_int, Mask(prefix, bits)) = 0
    ELSE TRUE

\* is_valid_cidr, lines 96-115, on a text that holds a "/"
SplitCidrOk(cidr, strict) ==
    IF Len(cidr.sfx) # 1 THEN FALSE
    ELSE IF ~cidr.sfx[1].ok THEN FALSE
    ELSE IF DotIn(cidr)
    THEN NetworkAddressOk(InetAton(cidr.ip), cidr.sfx[1].n, V4Bits, strict)
    ELSE NetworkAddressOk(InetPton(cidr.ip), cidr.sfx[1].n, V6Bits, strict)

is_valid_cidr(cidr, strict) ==
    IF ~SlashIn(cidr) /\ strict THEN FALSE
    ELSE SplitCidrOk(normalize_cidr_suffix(cidr), strict)

\* get_valid_cidr, lines 135-148: the dotted branch
NetworkV4(ip, ip_int, prefix, normalize) ==
    IF ~(0 <= prefix /\ prefix <= V4Bits) THEN NoneText
    ELSE IF ip_int = NoneInt THEN NoneText
    ELSE IF normalize
    THEN Text(FALSE, <<D(BitAnd(ip_int, Mask(prefix, V4Bits)))>>, <<Num(prefix)>>)
    ELSE IF AndNot(ip_int, Mask(prefix, V4Bits)) # 0 THEN NoneText
    ELSE Text(FALSE, ip, <<Num(prefix)>>)

\* get_valid_cidr, lines 159-160: f"{compress_ipv6(int_to_ip(network_int))}/{prefix}"
CompressedCidr(full, prefix) ==
    IF IsNone(full) THEN NoneText
    ELSE Text(FALSE, compress_ipv6(full).ip, <<Num(prefix)>>)

\* get_valid_cidr, lines 150-165: the other branch
NetworkV6(ip, ip_int, prefix, normalize) ==
    IF ip_int = NoneInt THEN NoneText
    ELSE IF ~(0 <= prefix /\ prefix <= V6Bits) THEN NoneText
    ELSE IF normalize
    THEN CompressedCidr(int_to_ip(BitAnd(ip_int, Mask(prefix, V6Bits))), prefix)
    ELSE IF AndNot(ip_int, Mask(prefix, V6Bits)) # 0 THEN NoneText
    ELSE Text(FALSE, ip, <<Num(prefix)>>)

\* get_valid_cidr, lines 132-165, on a text that holds a "/"
SplitCidrNetwork(cidr, normalize) ==
    IF Len(cidr.sfx) # 1 THEN NoneText
    ELSE IF ~cidr.sfx[1].ok THEN NoneText
    ELSE IF DotIn(cidr)
    THEN NetworkV4(cidr.ip, InetAton(cidr.ip), cidr.sfx[1].n, normalize)
    ELSE NetworkV6(cidr.ip, InetPton(cidr.ip), cidr.sfx[1].n, normalize)

get_valid_cidr(cidr, normalize) ==
    IF ~SlashIn(cidr) /\ ~normalize THEN NoneText
    ELSE SplitCidrNetwork(normalize_cidr_suffix(cidr), normalize)

\* __get_first_last_ip_cidr, lines 253-255
NetworkBroadcast(network_ip, prefix, bits) ==
    <<network_ip, BitOr(network_ip, Pow2(bits - prefix) - 1)>>

\* __get_first_last_ip_cidr, lines 251-257; a negative shift count or a None
\* address raises, and (0, 0) is returned
FirstLastOf(ip_int, prefix, bits) ==
    IF prefix < 0 \/ prefix > bits \/ ip_int = NoneInt THEN <<0, 0>>
    ELSE NetworkBroadcast(BitAnd(ip_int, BitAnd(Mask(prefix, bits), Pow2(bits) - 1)),
                          prefix, bits)

get_first_last_ip_cidr(cidr) ==
    IF Len(cidr.sfx) # 1 THEN <<0, 0>>
    ELSE IF ~cidr.sfx[1].ok THEN <<0, 0>>
    ELSE FirstLastOf(ip_to_int(IpPart(cidr)), cidr.sfx[1].n,
                     IF ColonIn(cidr) THEN V6Bits ELSE V4Bits)

-----------------------------------------------------------------------------
(* The characters of a text, for Python's ordering of str (code points).    *)

RECURSIVE Digits(_)
Digits(n) == IF n < 10 THEN <<48 + n>> ELSE Digits(n \div 10) \o <<48 + (n % 10)>>

NumChars(p) ==
    IF ~p.ok THEN <<120>>
    ELSE IF p.n < 0 THEN <<45>> \o Digits(0 - p.n)
    ELSE Digits(p.n)

TokChars(k) ==
    CASE k.t = "e" -> <<>>
      [] k.t = "h" -> <<48, 48, 48, 48 + k.v>>
      [] k.t = "u" -> <<48 + k.v>>
      [] k.t = "d" -> <<48 + ((k.v \div 8) % 2), 46, 48 + ((k.v \div 4) % 2), 46,
                        48 + ((k.v \div 2) % 2), 46, 48 + (k.v % 2)>>
      [] k.t = "y" -> <<57, 46, 57, 46, 57, 46, 57>>
      [] OTHER     -> <<103>>

RECURSIVE JoinColon(_)
JoinColon(ip) ==
    IF ip = <<>> THEN <<>>
    ELSE IF Len(ip) = 1 THEN TokChars(ip[1])
    ELSE TokChars(ip[1]) \o <<58>> \o JoinColon(Tail(ip))

Chars(s) ==
    (IF s.ws THEN <<32>> ELSE <<>>)
    \o JoinColon(s.ip)
    \o Flatten([i \in 1..Len(s.sfx) |-> <<47>> \o NumChars(s.sfx[i])])
    \o (IF s.ws THEN <<32>> ELSE <<>>)

RECURSIVE LexLess(_, _)
LexLess(a, b) ==
    IF b = <<>> THEN FALSE
    ELSE IF a = <<>> THEN TRUE
    ELSE IF Head(a) # Head(b) THEN Head(a) < Head(b)
    ELSE LexLess(Tail(a), Tail(b))

TextLess(a, b) == LexLess(Chars(a), Chars(b))

-----------------------------------------------------------------------------
(* The texts the calls are made with (in the scaled notation: one bit per   *)
(* octet and per hextet).                                                   *)

V4(v, p) == Text(FALSE, <<D(v)>>, <<Num(p)>>)
V6(ip, p) == Text(FALSE, ip, <<Num(p)>>)

T_0000_1 == V4(0, 1)                               \* "0.0.0.0/1"     0..7
T_0100_2 == V4(4, 2)                               \* "0.1.0.0/2"     4..7
T_1000_1 == V4(8, 1)                               \* "1.0.0.0/1"     8..15
T_1010_3 == V4(10, 3)                              \* "1.0.1.0/3"     10..11
T_1101   == Text(FALSE, <<D(13)>>, <<>>)           \* "1.1.0.1"       13..13
T_1011_1 == V4(11, 1)                              \* "1.0.1.1/1"     host bits set
T_1000_1_ws == Text(TRUE, <<D(8)>>, <<Num(1)>>)    \* " 1.0.0.0/1 "
T_9999_4 == Text(FALSE, <<Tok("y", 0)>>, <<Num(4)>>)        \* "9.9.9.9/4"
T_1000_5 == V4(8, 5)                               \* "1.0.0.0/5"     prefix too long
T_1000_x == Text(FALSE, <<D(8)>>, <<BadNum>>)      \* "1.0.0.0/x"
T_1000_1_1 == Text(FALSE, <<D(8)>>, <<Num(1), Num(1)>>)     \* "1.0.0.0/1/1"
T_blank  == Text(FALSE, <<E0>>, <<>>)              \* ""
T_spaces == Text(TRUE, <<E0>>, <<>>)               \* "  "
S_1_1    == V6(<<H(1), E0, E0>>, 1)                \* "0001::/1"      128..255
S_u1_1   == V6(<<U(1), E0, E0>>, 1)                \* "1::/1"         128..255
S_11_2   == V6(<<H(1), H(1), E0, E0>>, 2)          \* "0001:0001::/2" 192..255
S_101_3  == V6(<<H(1), H(0), H(1), E0, E0>>, 3)    \* "0001:0000:0001::/3" 160..191
S_16_4   == V6(<<E0, E0, H(1), H(0), H(0), H(0), H(0)>>, 4)
                                                   \* "::0001:0000:0000:0000:0000/4" 16..31
S_3_8    == V6(<<E0, E0, H(1), H(1)>>, 8)          \* "::0001:0001/8" 3..3
S_any_0  == V6(<<E0, E0, E0>>, 0)                  \* "::/0"          0..255

Inputs ==
    {T_0000_1, T_1000_1, T_1010_3, T_1101, T_1011_1, T_1000_1_ws,
     T_9999_4, T_blank, S_1_1, S_u1_1, S_16_4, S_3_8}

\* the lists the constructor and set_ip_networks_list are given
SetLists ==
    {<<>>, <<T_9999_4>>, <<T_1000_1>>, <<T_0000_1, T_1000_1>>, <<T_1010_3, T_1000_1>>,
     <<T_1011_1, S_1_1>>, <<S_3_8, T_0000_1>>, <<S_u1_1, S_1_1>>,
     <<T_1000_1_ws, T_1000_1, T_blank>>, <<T_1101, S_16_4>>}

\* the lists add_ip_networks_list is given
AddLists ==
    {<<>>, <<T_1000_1, T_1010_3>>, <<T_1000_1, T_1010_3, T_9999_4>>,
     <<T_1010_3, T_1101, T_1010_3>>, <<S_3_8, T_1101>>, <<T_1011_1, S_1_1>>,
     <<T_blank, T_1101>>}

\* the lists remove_ip_networks_list is given
RemoveLists ==
    {<<>>, <<T_1000_1>>, <<T_1000_1, T_0000_1>>, <<T_1101, T_9999_4>>, <<S_1_1, T_1010_3>>}

Q_0000 == Text(FALSE, <<D(0)>>, <<>>)              \* "0.0.0.0"
Q_0101 == Text(FALSE, <<D(5)>>, <<>>)              \* "0.1.0.1"
Q_1011 == Text(TRUE, <<D(11)>>, <<>>)              \* " 1.0.1.1 "
Q_v6_3 == Text(FALSE, <<E0, E0, H(1), H(1)>>, <<>>)         \* "::0001:0001"
Q_v6_200 == Text(FALSE, <<U(1), U(1), E0, U(1), U(0), U(0), U(0)>>, <<>>)
                                                   \* "1:1::1:0:0:0"
Q_v6_0 == Text(FALSE, <<E0, E0, E0>>, <<>>)        \* "::"
Q_junk == Text(FALSE, <<Tok("x", 0)>>, <<>>)       \* "g"
Q_cidr == T_1000_1                                 \* "1.0.0.0/1": not an address

Queries == {Q_0000, Q_1011, Q_v6_200, Q_junk}

QueryInts == {-1, 0, 3, 11, 200}

\* every text the calls can meet: the arguments, and what strip, the default
\* suffix and normalization make of them
RawTexts ==
    Inputs \cup Queries \cup UNION {Range(L) : L \in SetLists \cup AddLists \cup RemoveLists}

Derived(S) ==
    S \cup {strip(x) : x \in S} \cup {normalize_cidr_suffix(x) : x \in S}
      \cup ({get_valid_cidr(x, TRUE) : x \in S} \ {NoneText})

RECURSIVE Closure(_, _)
Closure(S, n) == IF n = 0 THEN S ELSE Closure(Derived(S), n - 1)

Universe == Closure(RawTexts, 3)

\* the rank of the text t in Python's order of str, among the texts of S
Rank(t, S) == Cardinality({u \in S : TextLess(u, t)})

\* The conversions, tabulated once over Universe.  For a text t:
\*   valid       is_valid_cidr(t)  (strict)
\*   normalized  get_valid_cidr(t, normalize=True)
\*   first_last  __get_first_last_ip_cidr(t)
\*   key         ip_to_int(t.split("/")[0]), the sort key of line 406
\*   rank        the place of t in sorted(...), which orders str by code points
\* The operators below take the table as their parameter F.
FactsOver(S) ==
    [t \in S |->
        [valid      |-> is_valid_cidr(t, TRUE),
         normalized |-> get_valid_cidr(t, TRUE),
         first_last |-> get_first_last_ip_cidr(t),
         key        |-> ip_to_int(IpPart(t)),
         rank       |-> Rank(t, S)]]

Facts == FactsOver(Universe)

-----------------------------------------------------------------------------
(* List helpers of the class.  F is the table of conversions (Facts).      *)

\* sorted(list(S)) for a set S of distinct strings
RECURSIVE SortedTexts(_, _)
SortedTexts(F, S) ==
    IF S = {} THEN <<>>
    ELSE LET m == CHOOSE x \in S : \A y \in S \ {x} : F[x].rank < F[y].rank
         IN  <<m>> \o SortedTexts(F, S \ {m})

\* list.sort(key=...) / sorted(..., key=...): stable, ascending by key
RECURSIVE InsertByKey(_, _, _, _)
InsertByKey(s, ks, x, kx) ==
    \* s sorted with keys ks; x goes after every element whose key is <= kx
    IF s = <<>> THEN <<<<x>>, <<kx>>>>
    ELSE IF ks[Len(ks)] <= kx THEN <<Append(s, x), Append(ks, kx)>>
    ELSE LET r == InsertByKey(SubSeq(s, 1, Len(s) - 1), SubSeq(ks, 1, Len(ks) - 1), x, kx)
         IN  <<Append(r[1], s[Len(s)]), Append(r[2], ks[Len(ks)])>>

RECURSIVE StableSort(_, _)
StableSort(s, ks) ==
    IF s = <<>> THEN <<<<>>, <<>>>>
    ELSE LET r == StableSort(SubSeq(s, 1, Len(s) - 1), SubSeq(ks, 1, Len(ks) - 1))
         IN  InsertByKey(r[1], r[2], s[Len(s)], ks[Len(ks)])

SortByKey(s, ks) == StableSort(s, ks)[1]

RECURSIVE BisectLoop(_, _, _, _)
BisectLoop(a, x, lo, hi) ==
    IF lo >= hi THEN lo
    ELSE LET mid == (lo + hi) \div 2
         IN  IF x < a[mid + 1] THEN BisectLoop(a, x, lo, mid)
             ELSE BisectLoop(a, x, mid + 1, hi)

bisect_right(a, x) == BisectLoop(a, x, 0, Len(a))

\* the 1-based position Python's a[i] reads in a list of length n; 0: IndexError
PyIdx(i, n) ==
    IF i >= 0 THEN (IF i < n THEN i + 1 ELSE 0)
    ELSE (IF n + i >= 0 THEN n + i + 1 ELSE 0)

RECURSIVE split_list(_, _)
split_list(a_list, size) ==
    IF size <= 0 \/ a_list = <<>> THEN <<>>
    ELSE IF Len(a_list) <= size THEN <<a_list>>
    ELSE <<SubSeq(a_list, 1, size)>> \o split_list(SubSeq(a_list, size + 1, Len(a_list)), size)

CeilDiv(n, d) == (n + d - 1) \div d

Abs(x) == IF x < 0 THEN 0 - x ELSE x

\* one turn of the loop of lines 266-273 on its variables; ret = 0 while no
\* return was taken, best_diff = -1 stands for float("inf")
BalancedTurn(list_size, chunk_size, st) ==
    LET diff == Abs(chunk_size - CeilDiv(list_size, chunk_size))
    IN  IF diff <= 1 THEN [st EXCEPT !.ret = chunk_size]
        ELSE IF st.best_diff = -1 \/ diff < st.best_diff
             THEN [st EXCEPT !.best_chunk_size = chunk_size, !.best_diff = diff]
             ELSE st

\* the turns for chunk_size = lo..hi in order, stopping at the first return
\* (the range is halved to keep the evaluation shallow)
RECURSIVE BalancedTurns(_, _, _, _)
BalancedTurns(list_size, lo, hi, st) ==
    IF st.ret # 0 \/ lo > hi THEN st
    ELSE IF lo = hi THEN BalancedTurn(list_size, lo, st)
    ELSE BalancedTurns(list_size, (lo + hi) \div 2 + 1, hi,
                       BalancedTurns(list_size, lo, (lo + hi) \div 2, st))

\* lines 264-274, entered at chunk_size
BalancedLoop(list_size, chunk_size, best_chunk_size, best_diff) ==
    LET st == BalancedTurns(list_size, chunk_size, MaxChunkSize,
                            [ret |-> 0, best_chunk_size |-> best_chunk_size,
                             best_diff |-> best_diff])
    IN  IF st.ret # 0 THEN st.ret ELSE st.best_chunk_size

\* a variant of find_balanced_chunk_size without the shortcut of lines 262-263
find_balanced_chunk_size_always_balanced(list_size) ==
    BalancedLoop(list_size, 1, 1, -1)

find_balanced_chunk_size(list_size) ==
    IF list_size <= MinChunkSize THEN list_size
    ELSE BalancedLoop(list_size, 1, 1, -1)

\* a variant of ip_ranges_overlap that only asks whether the first range starts
\* inside the second
ip_ranges_overlap_start_inside(first1, last1, first2, last2) ==
    first2 <= first1 /\ first1 <= last2

ip_ranges_overlap(first1, last1, first2, last2) == ~(last1 < first2 \/ first1 > last2)

RECURSIVE OverlapScan(_, _, _, _, _)
OverlapScan(F, rest, prev_last, filtered, dropped) ==
    \* the loop of _remove_overlapping_cidrs over cidrs[1:]
    IF rest = <<>> THEN [kept |-> filtered, dropped |-> dropped]
    ELSE IF F[Head(rest)].first_last[1] <= prev_last
    THEN OverlapScan(F, Tail(rest), prev_last, filtered, Append(dropped, Head(rest)))
    ELSE OverlapScan(F, Tail(rest), F[Head(rest)].first_last[2],
                     Append(filtered, Head(rest)), dropped)

\* a variant of the loop in which a dropped CIDR also becomes the one the next
\* is compared with (line 329 as "prev_first, prev_last = first, last", moved
\* out of the else)
RECURSIVE OverlapScan_chained(_, _, _, _, _)
OverlapScan_chained(F, rest, prev_last, filtered, dropped) ==
    IF rest = <<>> THEN [kept |-> filtered, dropped |-> dropped]
    ELSE IF F[Head(rest)].first_last[1] <= prev_last
    THEN OverlapScan_chained(F, Tail(rest), F[Head(rest)].first_last[2], filtered,
                             Append(dropped, Head(rest)))
    ELSE OverlapScan_chained(F, Tail(rest), F[Head(rest)].first_last[2],
                             Append(filtered, Head(rest)), dropped)

ScanSorted_chained(F, sorted) ==
    OverlapScan_chained(F, Tail(sorted), F[sorted[1]].first_last[2], <<sorted[1]>>, <<>>)

\* _remove_overlapping_cidrs, lines 321-330, on the list sorted by first_ip
ScanSorted(F, sorted) ==
    OverlapScan(F, Tail(sorted), F[sorted[1]].first_last[2], <<sorted[1]>>, <<>>)

\* the kept list and, in order, what went to discarded_cidrs
remove_overlapping_cidrs(F, new_list) ==
    ScanSorted(F, SortByKey(new_list,
                            [i \in 1..Len(new_list) |-> F[new_list[i]].first_last[1]]))

-----------------------------------------------------------------------------
(* __process_list: the rebuild.  It returns the set of its possible         *)
(* outcomes: list(set(...)) iterates in an arbitrary order, which decides   *)
(* the order in which rejected items reach discarded_cidrs and nothing      *)
(* else (the surviving items are sorted afterwards).                        *)

\* __clear_lists, then "return r"
Cleared(d, r) ==
    [cidrs |-> <<>>, list_chunks |-> <<>>, first_ip_chunks |-> <<>>,
     last_ip_chunks |-> <<>>, list_index |-> <<>>, discarded |-> d, ret |-> r]

\* lines 416-424: what is published under the lock
Snapshot(new_list, chunks, firsts, lasts, d) ==
    [cidrs |-> new_list, list_chunks |-> chunks, first_ip_chunks |-> firsts,
     last_ip_chunks |-> lasts, list_index |-> [c \in 1..Len(firsts) |-> firsts[c][1]],
     discarded |-> d, ret |-> TRUE]

\* lines 415-419
Chunked(F, new_list, chunk_size, d) ==
    Snapshot(new_list,
             split_list(new_list, chunk_size),
             split_list([i \in 1..Len(new_list) |-> F[new_list[i]].first_last[1]], chunk_size),
             split_list([i \in 1..Len(new_list) |-> F[new_list[i]].first_last[2]], chunk_size),
             d)

\* line 412, on what lines 408-409 kept and dropped
Built(F, r, d) ==
    Chunked(F, r.kept,
            IF Len(r.kept) <= MinChunkSize THEN Len(r.kept)
            ELSE find_balanced_chunk_size(Len(r.kept)),
            d \o r.dropped)

\* line 406: sorted by text, then (stably) by the address's integer
SortedCidrs(F, byText) ==
    SortByKey(byText, [i \in 1..Len(byText) |-> F[byText[i]].key])

\* what __normalize_and_remove_invalid_cidr / __normalize_cidr make of an item
NormalizedItem(F, x, norm) ==
    IF norm THEN F[strip(x)].normalized ELSE normalize_cidr_suffix(x)

\* lines 401-424, for the set valid of surviving CIDRs and one order o1, o2 in
\* which the items rejected by lines 388 and 398 were met
Rebuilt(F, valid, o1, o2, d0, check_overlap, norm) ==
    LET d == d0 \o [i \in 1..Len(o1) |-> strip(o1[i])]
                \o [i \in 1..Len(o2) |-> NormalizedItem(F, o2[i], norm)]
    IN  IF valid = {} THEN Cleared(d, FALSE)
        ELSE IF check_overlap
        THEN Built(F, remove_overlapping_cidrs(F, SortedCidrs(F, SortedTexts(F, valid))), d)
        ELSE Built(F, [kept |-> SortedCidrs(F, SortedTexts(F, valid)), dropped |-> <<>>], d)

\* lines 398-424: failN are the items get_valid_cidr rejected (line 388), failV
\* those is_valid_cidr rejects (line 398)
Validated(F, new_list, failN, failV, d0, check_overlap, norm) ==
    {Rebuilt(F, {NormalizedItem(F, x, norm) : x \in new_list \ (failN \cup failV)},
             o1, o2, d0, check_overlap, norm)
     : o1 \in Orders(failN), o2 \in Orders(failV)}

\* lines 384-398
Normalize(F, new_list, failN, d0, check_overlap, norm) ==
    Validated(F, new_list, failN,
              {x \in new_list \ failN : ~F[NormalizedItem(F, x, norm)].valid},
              d0, check_overlap, norm)

\* lines 378-424, for the set new_list of non-blank items
Processed(F, new_list, d0, check_overlap, norm) ==
    IF new_list = {} THEN {Cleared(d0, FALSE)}
    ELSE Normalize(F, new_list,
                   IF norm THEN {x \in new_list : IsNone(F[strip(x)].normalized)} ELSE {},
                   d0, check_overlap, norm)

\* a variant of process_list in which an item is dropped when its range meets
\* the range of an item given before it
process_list_first_come(F, ip_networks_list, check_overlap, kw_discarded, disc, norm) ==
    Processed(F, {ip_networks_list[i] : i \in
                     {k \in 1..Len(ip_networks_list) :
                         /\ ~IsBlank(strip(ip_networks_list[k]))
                         /\ \A j \in 1..(k - 1) :
                                ~ip_ranges_overlap(F[strip(ip_networks_list[k])].first_last[1],
                                                   F[strip(ip_networks_list[k])].first_last[2],
                                                   F[strip(ip_networks_list[j])].first_last[1],
                                                   F[strip(ip_networks_list[j])].first_last[2])}},
              IF kw_discarded /\ disc # <<>> THEN disc ELSE <<>>,
              check_overlap, norm)

\* kw_discarded: the call passes discarded_cidrs=self.discarded_cidrs; disc is
\* self.discarded_cidrs at the call
process_list(F, ip_networks_list, check_overlap, kw_discarded, disc, norm) ==
    Processed(F, {x \in Range(ip_networks_list) : ~IsBlank(strip(x))},
              IF kw_discarded /\ disc # <<>> THEN disc ELSE <<>>,
              check_overlap, norm)

-----------------------------------------------------------------------------
(* The overlap probe and the admission test, against the stored list cs     *)
(* and the published chunks.                                                *)

Outcome(kind, cidr) == [kind |-> kind, cidr |-> cidr]

\* lines 301-303 / 308-310: the CIDR at the first position of chunk c whose
\* range overlaps; chunk c is 1-based here
ChunkHit(c, first_ip, last_ip) ==
    LET hits == {i \in 1..Len(first_ip_chunks[c]) :
                    ip_ranges_overlap(first_ip, last_ip,
                                      first_ip_chunks[c][i], last_ip_chunks[c][i])}
    IN  IF hits = {} THEN Outcome("none", NoneText)
        ELSE Outcome("hit", list_chunks[c][CHOOSE i \in hits : \A j \in hits : i <= j])

\* lines 305-310: a neighbour chunk, when it exists
NeighbourHit(c, first_ip, last_ip) ==
    IF 1 <= c /\ c <= Len(first_ip_chunks) THEN ChunkHit(c, first_ip, last_ip)
    ELSE Outcome("none", NoneText)

FirstHit(h1, h2, h3) ==
    IF h1.kind = "hit" THEN h1 ELSE IF h2.kind = "hit" THEN h2 ELSE h3

\* a variant of ProbeChunks that looks at the bisected chunk only
ProbeChunks_current_only(c, first_ip, last_ip) ==
    IF c > Len(first_ip_chunks)
    THEN (IF raise_on_error THEN Outcome("raise", NoneText) ELSE Outcome("none", NoneText))
    ELSE ChunkHit(c, first_ip, last_ip)

\* lines 301-314, for the chunk c = match_root_index + 1; reading a chunk that
\* is not there raises IndexError, which line 311 catches
ProbeChunks(c, first_ip, last_ip) ==
    IF c > Len(first_ip_chunks)
    THEN (IF raise_on_error THEN Outcome("raise", NoneText) ELSE Outcome("none", NoneText))
    ELSE FirstHit(ChunkHit(c, first_ip, last_ip),
                  NeighbourHit(c - 1, first_ip, last_ip),
                  NeighbourHit(c + 1, first_ip, last_ip))

\* lines 297-299
ProbeFrom(fl, r0) == ProbeChunks((IF r0 < 0 THEN 0 ELSE r0) + 1, fl[1], fl[2])

ProbeRange(fl) == ProbeFrom(fl, bisect_right(list_index, fl[1]) - 1)

\* a variant of find_cidr_overlap without the early return on an empty list
find_cidr_overlap_without_empty_check(F, cidr, cs) ==
    ProbeRange(F[normalize_cidr_suffix(cidr)].first_last)

\* _find_cidr_overlap, lines 291-314
find_cidr_overlap(F, cidr, cs) ==
    IF cs = <<>> THEN Outcome("none", NoneText)
    ELSE ProbeRange(F[normalize_cidr_suffix(cidr)].first_last)

\* lines 456-458, 462-464, 469-471
Rejected == IF raise_on_error THEN Outcome("raise", NoneText) ELSE Outcome("false", NoneText)

\* lines 466-473
AfterProbe(overlap_result, cidr) ==
    IF overlap_result.kind = "raise" THEN overlap_result
    ELSE IF overlap_result.kind = "hit" THEN Rejected
    ELSE Outcome("ok", cidr)

\* lines 454-473, for cidr = _normalize_cidr_suffix(ipaddr.strip())
Admission(F, cidr, cs) ==
    IF ~F[cidr].valid THEN Rejected
    ELSE IF Contains(cs, cidr) THEN Rejected
    ELSE AfterProbe(find_cidr_overlap(F, cidr, cs), cidr)

test_is_valid_ip_network(F, ipaddr, cs) == Admission(F, normalize_cidr_suffix(ipaddr), cs)

\* a variant of call without the early return on an empty list
call_without_empty_check(iplong, is_int) ==
    LET Failed == IF ~raise_on_error THEN Outcome("False", NoneText)
                  ELSE IF is_int THEN Outcome("AttributeError", NoneText)
                  ELSE Outcome("UnlimitedIPListException", NoneText)
    IN  IF iplong = NoneInt \/ iplong <= 0 THEN Failed
        ELSE LET match_root_index == bisect_right(list_index, iplong) - 1
                 c == PyIdx(match_root_index, Len(first_ip_chunks))
             IN  IF c = 0 THEN Failed
                 ELSE LET match_list_index == bisect_right(first_ip_chunks[c], iplong) - 1
                          i == PyIdx(match_list_index, Len(first_ip_chunks[c]))
                      IN  IF i = 0 THEN Failed
                          ELSE IF iplong >= first_ip_chunks[c][i] /\ iplong <= last_ip_chunks[c][i]
                          THEN Outcome("Match", list_chunks[c][i])
                          ELSE Outcome("False", NoneText)

\* __call__ on an integer (is_int) or on the integer ip_to_int made of a text
call(iplong, is_int) ==
    LET Failed == IF ~raise_on_error THEN Outcome("False", NoneText)
                  ELSE IF is_int THEN Outcome("AttributeError", NoneText)
                  ELSE Outcome("UnlimitedIPListException", NoneText)
    IN  IF cidrs = <<>> THEN Outcome("False", NoneText)
        ELSE IF iplong = NoneInt \/ iplong <= 0 THEN Failed
        ELSE LET match_root_index == bisect_right(list_index, iplong) - 1
                 c == PyIdx(match_root_index, Len(first_ip_chunks))
             IN  IF c = 0 THEN Failed
                 ELSE LET match_list_index == bisect_right(first_ip_chunks[c], iplong) - 1
                          i == PyIdx(match_list_index, Len(first_ip_chunks[c]))
                      IN  IF i = 0 THEN Failed
                          ELSE IF iplong >= first_ip_chunks[c][i] /\ iplong <= last_ip_chunks[c][i]
                          THEN Outcome("Match", list_chunks[c][i])
                          ELSE Outcome("False", NoneText)

-----------------------------------------------------------------------------
(* The public methods, each as the set of its possible outcomes in the      *)
(* current state: the lists it leaves, the discard log and what it returns  *)
(* or raises.                                                               *)

\* the lists as they are, with discard log d and result r
Kept(d, r) ==
    [cidrs |-> cidrs, list_chunks |-> list_chunks, first_ip_chunks |-> first_ip_chunks,
     last_ip_chunks |-> last_ip_chunks, list_index |-> list_index,
     discarded |-> d, ret |-> r]

\* what __process_list left, the method returning r
Returning(outcomes, r) == {[o EXCEPT !.ret = r] : o \in outcomes}

\* lines 431-434; clear_ip_networks_list empties the discard log first
set_ip_networks_list(F, list_items) ==
    Returning(process_list(F, list_items, TRUE, FALSE, <<>>, normalize_invalid_cidr), "None")

\* lines 440-443
clear_ip_networks_list == {Cleared(<<>>, "None")}

\* a variant of RejectedLog that forgets to strip the argument
RejectedLog_unstripped(ipaddr) == <<ipaddr>>

\* add_ip_network's discard log when it rejects: cleared on entry (line 484),
\* then the stripped argument appended (lines 490, 495)
RejectedLog(ipaddr) == <<strip(ipaddr)>>

\* a variant of AddTested that rebuilds from the new entry alone
AddTested_replacing(F, ipaddr, t) ==
    IF t.kind = "false" THEN {Kept(RejectedLog(ipaddr), "False")}
    ELSE IF t.kind = "raise" THEN {Kept(<<>>, "UnlimitedIPListException")}
    ELSE Returning(process_list(F, <<t.cidr>>, FALSE, TRUE, <<>>,
                                normalize_invalid_cidr), "True")

\* lines 493-505, t being what test_is_valid_ip_network returned or raised
AddTested(F, ipaddr, t) ==
    IF t.kind = "false" THEN {Kept(RejectedLog(ipaddr), "False")}
    ELSE IF t.kind = "raise" THEN {Kept(<<>>, "UnlimitedIPListException")}
    ELSE Returning(process_list(F, Append(cidrs, t.cidr), FALSE, TRUE, <<>>,
                                normalize_invalid_cidr), "True")

\* lines 487-505, cidr being the candidate after lines 485-488
AddCandidate(F, ipaddr, cidr) ==
    IF normalize_invalid_cidr /\ IsNone(cidr) THEN {Kept(RejectedLog(ipaddr), "False")}
    ELSE AddTested(F, ipaddr, test_is_valid_ip_network(F, cidr, cidrs))

add_ip_network(F, ipaddr) ==
    AddCandidate(F, ipaddr,
                 IF normalize_invalid_cidr THEN F[strip(ipaddr)].normalized ELSE strip(ipaddr))

\* the loop of add_ip_networks_list (lines 514-527) over the items rest, with
\* self._cidrs = cs and self.discarded_cidrs = ds
RECURSIVE AddLoop(_, _, _, _)

\* lines 523-527
AddTestedItem(F, rest, cs, ds, t) ==
    IF t.kind = "raise" THEN [cidrs |-> cs, discarded |-> ds, raised |-> TRUE]
    ELSE IF t.kind = "false" THEN AddLoop(F, Tail(rest), cs, Append(ds, strip(Head(rest))))
    ELSE AddLoop(F, Tail(rest), Append(cs, t.cidr), ds)

\* lines 519-527
AddItem(F, rest, cs, ds, cidr) ==
    IF IsNone(cidr) \/ IsBlank(cidr)
    THEN AddLoop(F, Tail(rest), cs, Append(ds, strip(Head(rest))))
    ELSE AddTestedItem(F, rest, cs, ds, test_is_valid_ip_network(F, cidr, cs))

AddLoop(F, rest, cs, ds) ==
    IF rest = <<>> THEN [cidrs |-> cs, discarded |-> ds, raised |-> FALSE]
    ELSE AddItem(F, rest, cs, ds,
                 IF normalize_invalid_cidr THEN F[strip(Head(rest))].normalized
                 ELSE strip(Head(rest)))

\* lines 528-533, r being what the loop left; when the loop raised, the items
\* appended to self._cidrs so far stay and nothing is rebuilt
AddLooped(F, r) ==
    IF r.raised
    THEN {[Kept(r.discarded, "UnlimitedIPListException") EXCEPT !.cidrs = r.cidrs]}
    ELSE Returning(process_list(F, r.cidrs, TRUE, TRUE, r.discarded,
                                normalize_invalid_cidr), "True")

\* a variant of add_ip_networks_list that does not clear the discard log on entry
add_ip_networks_list_keeping_log(F, ipaddr_list) ==
    AddLooped(F, AddLoop(F, ipaddr_list, cidrs, discarded_cidrs))

add_ip_networks_list(F, ipaddr_list) == AddLooped(F, AddLoop(F, ipaddr_list, cidrs, <<>>))

\* a variant of RemoveKeyFrom that masks the key as add_ip_network does
RemoveKeyFrom_masking(F, ip, cs, ds, norm, kept) ==
    IF cs # <<>> /\ Contains(cs, IF norm /\ ~IsNone(F[ip].normalized) THEN F[ip].normalized ELSE ip)
    THEN Returning(process_list(F, RemoveFirst(cs, IF norm /\ ~IsNone(F[ip].normalized)
                                                   THEN F[ip].normalized ELSE ip),
                                FALSE, FALSE, ds, norm), "True")
    ELSE {kept}

\* lines 539-549, ip being the key of line 542, with self._cidrs = cs and
\* self.discarded_cidrs = ds; kept is the instance left as it is, returning False
RemoveKeyFrom(F, ip, cs, ds, norm, kept) ==
    IF cs # <<>> /\ Contains(cs, ip)
    THEN Returning(process_list(F, RemoveFirst(cs, ip), FALSE, FALSE, ds, norm), "True")
    ELSE {kept}

RemoveKey(F, ip) ==
    RemoveKeyFrom(F, ip, cidrs, discarded_cidrs, normalize_invalid_cidr,
                  Kept(discarded_cidrs, "False"))

remove_ip_network(F, ipaddr) == RemoveKey(F, normalize_cidr_suffix(ipaddr))

\* the loop of remove_ip_networks_list (lines 562-567)
RECURSIVE RemoveLoop(_, _)
RemoveLoop(rest, cs) ==
    IF rest = <<>> THEN cs
    ELSE RemoveLoop(Tail(rest), RemoveFirst(cs, normalize_cidr_suffix(Head(rest))))

remove_ip_networks_list(F, ipaddr_list) ==
    IF cidrs = <<>> THEN {Kept(discarded_cidrs, "False")}
    ELSE Returning(process_list(F, RemoveLoop(ipaddr_list, cidrs), FALSE, FALSE,
                                discarded_cidrs, normalize_invalid_cidr), "True")

-----------------------------------------------------------------------------
(* The state machine: one action per public method.                         *)

Publish(o) ==
    /\ cidrs' = o.cidrs
    /\ list_chunks' = o.list_chunks
    /\ first_ip_chunks' = o.first_ip_chunks
    /\ last_ip_chunks' = o.last_ip_chunks
    /\ list_index' = o.list_index
    /\ discarded_cidrs' = o.discarded

Called(name, a, n, r, m) ==
    /\ op' = name
    /\ arg' = a
    /\ argInt' = n
    /\ result' = r
    /\ match' = m
    /\ UNCHANGED <<normalize_invalid_cidr, raise_on_error, mutations, lookup>>

\* __init__ (lines 35-47): the state after construction
Init ==
    \E L \in SetLists, n \in BOOLEAN, r \in BOOLEAN :
        \E o \in process_list(Facts, L, TRUE, FALSE, <<>>, n) :
            /\ normalize_invalid_cidr = n
            /\ raise_on_error = r
            /\ cidrs = o.cidrs
            /\ list_chunks = o.list_chunks
            /\ first_ip_chunks = o.first_ip_chunks
            /\ last_ip_chunks = o.last_ip_chunks
            /\ list_index = o.list_index
            /\ discarded_cidrs = o.discarded
            /\ op = "init"
            /\ arg = L
            /\ argInt = NoneInt
            /\ result = "None"
            /\ match = <<>>
            /\ mutations = <<>>
            /\ lookup = [pc |-> "idle"]

SetIpNetworksList ==
    \E L \in SetLists :
        \E o \in set_ip_networks_list(Facts, L) :
            /\ Publish(o)
            /\ Called("set_ip_networks_list", L, NoneInt, o.ret, <<>>)

ClearIpNetworksList ==
    \E o \in clear_ip_networks_list :
        /\ Publish(o)
        /\ Called("clear_ip_networks_list", <<>>, NoneInt, o.ret, <<>>)

AddIpNetwork ==
    \E x \in Inputs :
        /\ Len(cidrs) < MaxLen
        /\ \E o \in add_ip_network(Facts, x) :
               /\ Publish(o)
               /\ Called("add_ip_network", <<x>>, NoneInt, o.ret, <<>>)

AddIpNetworksList ==
    \E L \in AddLists :
        /\ Len(cidrs) + Len(L) <= MaxLen
        /\ \E o \in add_ip_networks_list(Facts, L) :
               /\ Publish(o)
               /\ Called("add_ip_networks_list", L, NoneInt, o.ret, <<>>)

RemoveIpNetwork ==
    \E x \in Inputs :
        \E o \in remove_ip_network(Facts, x) :
            /\ Publish(o)
            /\ Called("remove_ip_network", <<x>>, NoneInt, o.ret, <<>>)

RemoveIpNetworksList ==
    \E L \in RemoveLists :
        \E o \in remove_ip_networks_list(Facts, L) :
            /\ Publish(o)
            /\ Called("remove_ip_networks_list", L, NoneInt, o.ret, <<>>)

\* __call__ / check_ipaddr with a text
CheckIpaddr ==
    \E q \in Queries :
        LET r == call(ip_to_int(strip(q)), FALSE)
        IN  /\ UNCHANGED <<cidrs, index, discarded_cidrs>>
            /\ Called("check_ipaddr", <<q>>, NoneInt, r.kind,
                      IF r.kind = "Match" THEN <<r.cidr>> ELSE <<>>)

\* __call__ / check_ipaddr with an integer
CheckIplong ==
    \E n \in QueryInts :
        LET r == call(n, TRUE)
        IN  /\ UNCHANGED <<cidrs, index, discarded_cidrs>>
            /\ Called("check_iplong", <<>>, n, r.kind,
                      IF r.kind = "Match" THEN <<r.cidr>> ELSE <<>>)

Next ==
    \/ SetIpNetworksList
    \/ ClearIpNetworksList
    \/ AddIpNetwork
    \/ AddIpNetworksList
    \/ RemoveIpNetwork
    \/ RemoveIpNetworksList
    \/ CheckIpaddr
    \/ CheckIplong

Spec == Init /\ [][Next]_vars

Mutators ==
    {"set_ip_networks_list", "clear_ip_networks_list", "add_ip_network",
     "add_ip_networks_list", "remove_ip_network", "remove_ip_networks_list"}

\* the call just made reported success
Success == result' \in {"True", "None"}

\* the runs in which every mutating call reports success
NextSuccessful ==
    \/ SetIpNetworksList /\ Success
    \/ ClearIpNetworksList /\ Success
    \/ AddIpNetwork /\ Success
    \/ AddIpNetworksList /\ Success
    \/ RemoveIpNetwork /\ Success
    \/ RemoveIpNetworksList /\ Success
    \/ CheckIpaddr
    \/ CheckIplong

SpecSuccessful == Init /\ [][NextSuccessful]_vars

-----------------------------------------------------------------------------
(* A lookup in one thread beside a mutating call in another.  __call__      *)
(* takes no lock: each of its lines reads the fields as they are at that    *)
(* moment, while the mutating call writes them one after the other.         *)

\* what the racing calls are given
RaceQueries == {Q_0101, Q_1011, Q_v6_200}
RaceLists == {<<T_1000_1>>, <<T_0000_1, T_1000_1>>, <<T_9999_4>>}
RaceInputs == {T_0000_1, T_1000_1, T_1010_3}

\* one write of a field of the instance
Write(f, v) == [f |-> f, v |-> v]

\* __clear_lists, lines 279-285
ClearWrites(clear_discarded_cidr) ==
    <<Write("cidrs", <<>>), Write("list_chunks", <<>>), Write("first_ip_chunks", <<>>),
      Write("last_ip_chunks", <<>>), Write("list_index", <<>>)>>
    \o (IF clear_discarded_cidr THEN <<Write("discarded_cidrs", <<>>)>> ELSE <<>>)

\* the end of __process_list: lines 417-421, or __clear_lists (lines 380, 403)
\* when nothing is left
PublishWrites(o) ==
    IF o.cidrs = <<>> THEN ClearWrites(FALSE)
    ELSE <<Write("list_chunks", o.list_chunks), Write("first_ip_chunks", o.first_ip_chunks),
           Write("last_ip_chunks", o.last_ip_chunks), Write("list_index", o.list_index),
           Write("cidrs", o.cidrs)>>

\* a mutating call in progress: the writes it has still to make, what it will
\* return, and what a lookup of each integer answered before it began
Mutation(name, writes, ret, before) ==
    [name |-> name, writes |-> writes, ret |-> ret, before |-> before]

\* the answers of __call__ on the instance as it is
Answers == [q \in RaceQueries |-> call(ip_to_int(strip(q)), FALSE)]

\* set_ip_networks_list, lines 433-434: the lists are cleared, the discard log
\* is filled while the items are validated, the new lists are published
SetWrites(o) ==
    ClearWrites(TRUE)
    \o (IF o.discarded # <<>> THEN <<Write("discarded_cidrs", o.discarded)>> ELSE <<>>)
    \o PublishWrites(o)

\* add_ip_network, lines 484-499, entry being the CIDR line 498 appends
AddWrites(o, entry) ==
    <<Write("discarded_cidrs", <<>>)>>
    \o (IF o.ret = "True" THEN <<Write("cidrs", Append(cidrs, entry))>> \o PublishWrites(o)
        ELSE IF o.ret = "False" THEN <<Write("discarded_cidrs", o.discarded)>>
        ELSE <<>>)

\* remove_ip_network, lines 544-545
RemoveWrites(o, ip) ==
    IF o.ret = "True" THEN <<Write("cidrs", RemoveFirst(cidrs, ip))>> \o PublishWrites(o)
    ELSE <<>>

\* a thread begins the mutating call
Begin(name, writes, ret) ==
    /\ mutations = <<>>
    /\ mutations' = <<Mutation(name, writes, ret, Answers)>>
    /\ UNCHANGED <<normalize_invalid_cidr, raise_on_error, cidrs, index, discarded_cidrs,
                   op, arg, argInt, result, match, lookup>>

RaceSet ==
    /\ mutations = <<>>
    /\ \E L \in RaceLists :
           \E o \in set_ip_networks_list(Facts, L) :
               Begin("set_ip_networks_list", SetWrites(o), o.ret)

RaceClear ==
    /\ mutations = <<>>
    /\ Begin("clear_ip_networks_list", ClearWrites(TRUE), "None")

\* the entry add_ip_network appends is what test_is_valid_ip_network returns
RaceAddOf(F, x) ==
    \E o \in add_ip_network(F, x) :
        Begin("add_ip_network",
              AddWrites(o, normalize_cidr_suffix(IF normalize_invalid_cidr
                                                 THEN F[strip(x)].normalized ELSE strip(x))),
              o.ret)

RaceAdd ==
    /\ mutations = <<>>
    /\ Len(cidrs) < MaxLen
    /\ \E x \in RaceInputs : RaceAddOf(Facts, x)

RaceRemove ==
    /\ mutations = <<>>
    /\ \E x \in RaceInputs :
           \E o \in remove_ip_network(Facts, x) :
               Begin("remove_ip_network", RemoveWrites(o, normalize_cidr_suffix(x)), o.ret)

\* the mutating thread makes its next write
WriteStep ==
    /\ mutations # <<>>
    /\ mutations[1].writes # <<>>
    /\ LET w == Head(mutations[1].writes)
       IN  /\ cidrs' = IF w.f = "cidrs" THEN w.v ELSE cidrs
           /\ list_chunks' = IF w.f = "list_chunks" THEN w.v ELSE list_chunks
           /\ first_ip_chunks' = IF w.f = "first_ip_chunks" THEN w.v ELSE first_ip_chunks
           /\ last_ip_chunks' = IF w.f = "last_ip_chunks" THEN w.v ELSE last_ip_chunks
           /\ list_index' = IF w.f = "list_index" THEN w.v ELSE list_index
           /\ discarded_cidrs' = IF w.f = "discarded_cidrs" THEN w.v ELSE discarded_cidrs
    /\ mutations' = <<[mutations[1] EXCEPT !.writes = Tail(@)]>>
    /\ UNCHANGED <<normalize_invalid_cidr, raise_on_error, op, arg, argInt, result, match,
                   lookup>>

\* the lookup's thread moves on
Looking(l) ==
    /\ lookup' = l
    /\ UNCHANGED <<normalize_invalid_cidr, raise_on_error, cidrs, index, discarded_cidrs,
                   op, arg, argInt, result, match, mutations>>

Returned(q, r) == [pc |-> "done", q |-> q, result |-> r]

\* the except clause of lines 606-609, and lines 594-596
LookupFailed ==
    IF raise_on_error THEN Outcome("UnlimitedIPListException", NoneText)
    ELSE Outcome("False", NoneText)

\* lines 585-596
LookupStart ==
    \E q \in RaceQueries :
        /\ lookup.pc = "idle"
        /\ Looking(IF cidrs = <<>> THEN Returned(q, Outcome("False", NoneText))
                   ELSE IF ip_to_int(strip(q)) = NoneInt \/ ip_to_int(strip(q)) <= 0
                   THEN Returned(q, LookupFailed)
                   ELSE [pc |-> "root", q |-> q, iplong |-> ip_to_int(strip(q))])

\* line 598
LookupRoot ==
    /\ lookup.pc = "root"
    /\ Looking([pc |-> "bisect", q |-> lookup.q, iplong |-> lookup.iplong,
                match_root_index |-> bisect_right(list_index, lookup.iplong) - 1])

\* line 599
LookupBisect ==
    /\ lookup.pc = "bisect"
    /\ LET c == PyIdx(lookup.match_root_index, Len(first_ip_chunks))
       IN  Looking(IF c = 0 THEN Returned(lookup.q, LookupFailed)
                   ELSE [pc |-> "network", q |-> lookup.q, iplong |-> lookup.iplong,
                         match_root_index |-> lookup.match_root_index,
                         match_list_index |->
                             bisect_right(first_ip_chunks[c], lookup.iplong) - 1])

\* lines 600-603: network is a list of one CIDR, or empty for False
LookupNetwork ==
    /\ lookup.pc = "network"
    /\ LET c == PyIdx(lookup.match_root_index, Len(list_chunks))
           i == IF c = 0 THEN 0 ELSE PyIdx(lookup.match_list_index, Len(list_chunks[c]))
       IN  Looking([pc |-> "inside", q |-> lookup.q, iplong |-> lookup.iplong,
                    match_root_index |-> lookup.match_root_index,
                    match_list_index |-> lookup.match_list_index,
                    network |-> IF i = 0 THEN <<>> ELSE <<list_chunks[c][i]>>])

\* lines 604-605
LookupInside ==
    /\ lookup.pc = "inside"
    /\ LET c  == PyIdx(lookup.match_root_index, Len(first_ip_chunks))
           i  == IF c = 0 THEN 0 ELSE PyIdx(lookup.match_list_index, Len(first_ip_chunks[c]))
           c2 == PyIdx(lookup.match_root_index, Len(last_ip_chunks))
           i2 == IF c2 = 0 THEN 0 ELSE PyIdx(lookup.match_list_index, Len(last_ip_chunks[c2]))
       IN  Looking(IF i = 0 THEN Returned(lookup.q, LookupFailed)
                   ELSE IF lookup.iplong < first_ip_chunks[c][i]
                   THEN Returned(lookup.q, Outcome("False", NoneText))
                   ELSE IF i2 = 0 THEN Returned(lookup.q, LookupFailed)
                   ELSE IF lookup.iplong <= last_ip_chunks[c2][i2] /\ lookup.network # <<>>
                   THEN Returned(lookup.q, Outcome("Match", lookup.network[1]))
                   ELSE Returned(lookup.q, Outcome("False", NoneText)))

NextLookupRace ==
    \/ RaceSet
    \/ RaceClear
    \/ RaceAdd
    \/ RaceRemove
    \/ WriteStep
    \/ LookupStart
    \/ LookupRoot
    \/ LookupBisect
    \/ LookupNetwork
    \/ LookupInside

SpecLookupRace == Init /\ [][NextLookupRace]_vars

-----------------------------------------------------------------------------
(* Mutating calls in two threads.  The lock is held by __clear_lists and by *)
(* the publication that ends __process_list, and by nothing else: the       *)
(* admission test, the append or removal on self._cidrs and the copy that   *)
(* __process_list takes of its argument all run outside it.                 *)

MaxThreads == 2

\* a call of thread t in progress: entry is the CIDR it adds or removes, new
\* the lists __process_list has built for it, serial whether every other
\* call had returned when it began
Thread(name, entry, pc, ret, new) ==
    [name |-> name, entry |-> entry, pc |-> pc, ret |-> ret, new |-> new,
     serial |-> \A u \in 1..Len(mutations) : mutations[u].pc = "done"]

Proceeding(t, pc, ret, new) ==
    mutations' = [mutations EXCEPT ![t] = [@ EXCEPT !.pc = pc, !.ret = ret, !.new = new]]

\* add_ip_network, lines 484-496, t being the verdict of the admission test
MutatorAddTested(ipaddr, t) ==
    /\ discarded_cidrs' = IF t.kind = "false" THEN RejectedLog(ipaddr) ELSE <<>>
    /\ mutations' = Append(mutations,
                           IF t.kind = "ok" THEN Thread("add_ip_network", t.cidr, "append", "", <<>>)
                           ELSE IF t.kind = "false"
                           THEN Thread("add_ip_network", NoneText, "done", "False", <<>>)
                           ELSE Thread("add_ip_network", NoneText, "done",
                                       "UnlimitedIPListException", <<>>))
    /\ UNCHANGED <<normalize_invalid_cidr, raise_on_error, cidrs, index,
                   op, arg, argInt, result, match, lookup>>

MutatorAddCandidate(F, ipaddr, cidr) ==
    MutatorAddTested(ipaddr,
                     IF normalize_invalid_cidr /\ IsNone(cidr) THEN Outcome("false", NoneText)
                     ELSE test_is_valid_ip_network(F, cidr, cidrs))

MutatorAddOf(F, ipaddr) ==
    MutatorAddCandidate(F, ipaddr,
                        IF normalize_invalid_cidr THEN F[strip(ipaddr)].normalized
                        ELSE strip(ipaddr))

MutatorAdd ==
    /\ Len(mutations) < MaxThreads
    /\ \E x \in RaceInputs : MutatorAddOf(Facts, x)

\* add_ip_network, line 498
MutatorAppend ==
    \E t \in 1..Len(mutations) :
        /\ mutations[t].pc = "append"
        /\ cidrs' = Append(cidrs, mutations[t].entry)
        /\ Proceeding(t, "snapshot", "", <<>>)
        /\ UNCHANGED <<normalize_invalid_cidr, raise_on_error, index, discarded_cidrs,
                       op, arg, argInt, result, match, lookup>>

\* remove_ip_network, lines 539-544 and 546-548
MutatorRemove ==
    /\ Len(mutations) < MaxThreads
    /\ \E x \in RaceInputs :
           LET ip == normalize_cidr_suffix(strip(x))
           IN  IF cidrs # <<>> /\ Contains(cidrs, ip)
               THEN /\ cidrs' = RemoveFirst(cidrs, ip)
                    /\ mutations' = Append(mutations,
                                           Thread("remove_ip_network", ip, "snapshot", "", <<>>))
               ELSE /\ cidrs' = cidrs
                    /\ mutations' = Append(mutations,
                                           Thread("remove_ip_network", ip, "done", "False", <<>>))
    /\ UNCHANGED <<normalize_invalid_cidr, raise_on_error, index, discarded_cidrs,
                   op, arg, argInt, result, match, lookup>>

\* __process_list up to the lock: lines 371-415 build the new lists from a
\* copy of self._cidrs (line 374) and fill the discard log
MutatorSnapshotOf(F, t) ==
    \E o \in process_list(F, cidrs, FALSE, mutations[t].name = "add_ip_network",
                          discarded_cidrs, normalize_invalid_cidr) :
        /\ discarded_cidrs' = o.discarded
        /\ Proceeding(t, "publish", "", <<o>>)
        /\ UNCHANGED <<normalize_invalid_cidr, raise_on_error, cidrs, index,
                       op, arg, argInt, result, match, lookup>>

MutatorSnapshot ==
    \E t \in 1..Len(mutations) :
        /\ mutations[t].pc = "snapshot"
        /\ MutatorSnapshotOf(Facts, t)

\* lines 416-421 (or __clear_lists, lines 278-285) under the lock, and the
\* return of line 501 or 546
MutatorPublish ==
    \E t \in 1..Len(mutations) :
        /\ mutations[t].pc = "publish"
        /\ cidrs' = mutations[t].new[1].cidrs
        /\ list_chunks' = mutations[t].new[1].list_chunks
        /\ first_ip_chunks' = mutations[t].new[1].first_ip_chunks
        /\ last_ip_chunks' = mutations[t].new[1].last_ip_chunks
        /\ list_index' = mutations[t].new[1].list_index
        /\ Proceeding(t, "done", "True", <<>>)
        /\ UNCHANGED <<normalize_invalid_cidr, raise_on_error, discarded_cidrs,
                       op, arg, argInt, result, match, lookup>>

NextMutatorRace ==
    \/ MutatorAdd
    \/ MutatorAppend
    \/ MutatorRemove
    \/ MutatorSnapshot
    \/ MutatorPublish

SpecMutatorRace == Init /\ [][NextMutatorRace]_vars

-----------------------------------------------------------------------------
(* The conversions, called on a constructed instance.  They read nothing of *)
(* the instance; op, arg, argInt, result and match record the call: argInt  *)
(* holds an integer argument or a flag (1 for True, 0 for False), match     *)
(* the integer or text returned, as a list of 0 or 1 values.                *)

\* the eight zero-padded hextets of an integer
FullV6(n) ==
    Text(FALSE, [i \in 1..HextetCount |-> H((n \div Pow2(HextetCount - i)) % 2)], <<>>)

A_v6_1      == Text(FALSE, <<E0, E0, U(1)>>, <<>>)              \* "::1"
A_v6_16     == Text(FALSE, <<E0, E0, U(1), U(0), U(0), U(0), U(0)>>, <<>>)  \* "::1:0:0:0:0"
A_v6_mapped == Text(FALSE, <<E0, E0, U(1), Tok("q", 1)>>, <<>>) \* "::1:0.0.0.1"
A_v6_128    == Text(FALSE, <<U(1), E0, E0>>, <<>>)              \* "1::"
A_number    == Text(FALSE, <<U(1)>>, <<>>)                      \* "1"

\* the IPv6 integers of the calls: those around the IPv4 range and some above
ConvV6Ints == 0..(Pow2(V4Bits) + 4) \cup {128, 200, Pow2(V6Bits) - 1}

\* the address texts ip_to_int is called with: every dotted quad, IPv6
\* addresses in full, and some shorter spellings
ConvAddresses ==
    {Text(FALSE, <<D(n)>>, <<>>) : n \in 0..(Pow2(V4Bits) - 1)}
    \cup {FullV6(n) : n \in ConvV6Ints}
    \cup {A_v6_1, A_v6_16, A_v6_mapped, A_v6_128, A_number,
          Q_v6_0, Q_v6_3, Q_v6_200, Q_1011, Q_junk, Q_cidr}

\* the integers int_to_ip is called with
ConvInts == ConvV6Ints \cup {Pow2(V6Bits)}

\* the prefixes of the CIDR texts: none, a bad one, and numbers in and out of
\* range
ConvPrefixes == {<<Num(p)>> : p \in {-1, 0, 1, V4Bits, V4Bits + 1, V6Bits, V6Bits + 1}}
                \cup {<<>>, <<BadNum>>}

ConvHosts ==
    {Text(FALSE, <<D(5)>>, <<>>), Text(FALSE, <<D(10)>>, <<>>), FullV6(1),
     A_v6_1, A_v6_mapped, A_v6_128, A_number, Q_1011, Q_junk}

\* the texts is_valid_cidr and get_valid_cidr are called with
ConvCidrs == {Text(a.ws, a.ip, p) : a \in ConvHosts, p \in ConvPrefixes}

Flag(b) == IF b THEN 1 ELSE 0

\* ip_to_int, lines 170-178
IpToInt ==
    \E a \in ConvAddresses :
        /\ Called("ip_to_int", <<a>>, NoneInt,
                  IF ip_to_int(strip(a)) = NoneInt THEN "None" ELSE "int",
                  IF ip_to_int(strip(a)) = NoneInt THEN <<>> ELSE <<ip_to_int(strip(a))>>)
        /\ UNCHANGED <<cidrs, index, discarded_cidrs>>

\* int_to_ip, lines 180-190
IntToIp ==
    \E n \in ConvInts :
        /\ Called("int_to_ip", <<>>, n,
                  IF IsNone(int_to_ip(n)) THEN "None" ELSE "str",
                  IF IsNone(int_to_ip(n)) THEN <<>> ELSE <<int_to_ip(n)>>)
        /\ UNCHANGED <<cidrs, index, discarded_cidrs>>

\* is_valid_cidr, lines 76-117
IsValidCidr ==
    \E x \in ConvCidrs, strict \in BOOLEAN :
        /\ Called("is_valid_cidr", <<x>>, Flag(strict),
                  IF is_valid_cidr(x, strict) THEN "True" ELSE "False", <<>>)
        /\ UNCHANGED <<cidrs, index, discarded_cidrs>>

\* get_valid_cidr, lines 119-168, on one of the texts or on the CIDR the
\* call before it returned
GetValidCidr ==
    \E x \in ConvCidrs \cup (IF op = "get_valid_cidr" THEN Range(match) ELSE {}),
       normalize \in BOOLEAN :
        /\ Called("get_valid_cidr", <<x>>, Flag(normalize),
                  IF IsNone(get_valid_cidr(x, normalize)) THEN "None" ELSE "str",
                  IF IsNone(get_valid_cidr(x, normalize)) THEN <<>>
                  ELSE <<get_valid_cidr(x, normalize)>>)
        /\ UNCHANGED <<cidrs, index, discarded_cidrs>>

NextConversions ==
    \/ IpToInt
    \/ IntToIp
    \/ IsValidCidr
    \/ GetValidCidr

\* the instance the conversions are called on is constructed from no item
InitConversions == Init /\ arg = <<>>

SpecConversions == InitConversions /\ [][NextConversions]_vars

-----------------------------------------------------------------------------
(* The cost of a lookup, on indexes large enough to have several chunks.    *)
(* The instance is built from n host CIDRs at the odd addresses 1, 3, ...,  *)
(* which are valid and disjoint, so that __process_list keeps them all.     *)

\* the numbers of entries of the instances
CostSizes == {1, 3, MinChunkSize, MinChunkSize + 1, MinChunkSize + 20}

\* the host CIDR at address v, in full IPv6 notation with the /128 of the family
HostCidr(v) == Text(FALSE, FullV6(v).ip, <<Num(V6Bits)>>)

\* the sorted list __process_list has at line 406 for n such hosts
HostList(n) == [k \in 1..n |-> HostCidr(2 * k - 1)]

\* __get_first_last_ip_cidr of each of them
HostFacts(n) == [x \in Range(HostList(n)) |-> [first_last |-> get_first_last_ip_cidr(x)]]

\* the integers looked up: every address up to one past the last host
CostQueries(n) == 0..(2 * n)

\* the comparisons bisect_right makes: one for each turn of its loop
RECURSIVE BisectCount(_, _, _, _)
BisectCount(a, x, lo, hi) ==
    IF lo >= hi THEN 0
    ELSE LET mid == (lo + hi) \div 2
         IN  IF x < a[mid + 1] THEN 1 + BisectCount(a, x, lo, mid)
             ELSE 1 + BisectCount(a, x, mid + 1, hi)

\* a variant of call_comparisons that searches the chunk from its first entry,
\* one comparison for each entry passed
call_comparisons_scanning(iplong) ==
    IF cidrs = <<>> \/ iplong <= 0 THEN 0
    ELSE LET c == PyIdx(bisect_right(list_index, iplong) - 1, Len(first_ip_chunks))
         IN  BisectCount(list_index, iplong, 0, Len(list_index))
             + (IF c = 0 THEN 0
                ELSE Cardinality({i \in 1..Len(first_ip_chunks[c]) :
                                     first_ip_chunks[c][i] <= iplong}))

\* the comparisons of __call__, lines 598-599
call_comparisons(iplong) ==
    IF cidrs = <<>> \/ iplong <= 0 THEN 0
    ELSE LET c == PyIdx(bisect_right(list_index, iplong) - 1, Len(first_ip_chunks))
         IN  BisectCount(list_index, iplong, 0, Len(list_index))
             + (IF c = 0 THEN 0
                ELSE BisectCount(first_ip_chunks[c], iplong, 0, Len(first_ip_chunks[c])))

\* __init__ on a list of n hosts
InitLookupCost ==
    \E n \in CostSizes, nm \in BOOLEAN, r \in BOOLEAN :
        LET o == Built(HostFacts(n), [kept |-> HostList(n), dropped |-> <<>>], <<>>)
        IN  /\ normalize_invalid_cidr = nm
            /\ raise_on_error = r
            /\ cidrs = o.cidrs
            /\ list_chunks = o.list_chunks
            /\ first_ip_chunks = o.first_ip_chunks
            /\ last_ip_chunks = o.last_ip_chunks
            /\ list_index = o.list_index
            /\ discarded_cidrs = o.discarded
            /\ op = "init"
            /\ arg = <<>>
            /\ argInt = NoneInt
            /\ result = "None"
            /\ match = <<>>
            /\ mutations = <<>>
            /\ lookup = [pc |-> "idle"]

\* __call__ with an integer, once on each instance (a lookup changes nothing
\* of it); lookup records the call and its comparisons
CostedLookup ==
    \E q \in CostQueries(Len(cidrs)) :
        /\ lookup.pc = "idle"
        /\ op' = "check_iplong"
        /\ arg' = <<>>
        /\ argInt' = q
        /\ result' = call(q, TRUE).kind
        /\ match' = IF call(q, TRUE).kind = "Match" THEN <<call(q, TRUE).cidr>> ELSE <<>>
        /\ lookup' = [pc |-> "done", q |-> q, result |-> call(q, TRUE),
                      comparisons |-> call_comparisons(q)]
        /\ UNCHANGED <<normalize_invalid_cidr, raise_on_error, cidrs, index, discarded_cidrs,
                       mutations>>

NextLookupCost == CostedLookup

SpecLookupCost == InitLookupCost /\ [][NextLookupCost]_vars

-----------------------------------------------------------------------------
(* The rebuild with overlap resolution, on lists of valid CIDRs that nest   *)
(* in one another.                                                          *)

T_0100_3 == V4(4, 3)                               \* "0.1.0.0/3"     4..5
T_0110_3 == V4(6, 3)                               \* "0.1.1.0/3"     6..7
T_0111_4 == V4(7, 4)                               \* "0.1.1.1/4"     7..7

\* the CIDRs of the lists
RebuildTexts == {T_0000_1, T_0100_2, T_0100_3, T_0110_3, T_0111_4, T_1000_1, T_1010_3}

\* the lists set_ip_networks_list is given: up to three of them, in any order
RebuildLists ==
    {<<a>> : a \in RebuildTexts}
    \cup {L \in RebuildTexts \X RebuildTexts : L[1] # L[2]}
    \cup {L \in {T_0000_1, T_0100_2} \X RebuildTexts \X RebuildTexts :
             L[1] # L[2] /\ L[1] # L[3] /\ L[2] # L[3]}
    \cup {L \in RebuildTexts \X RebuildTexts \X {T_0000_1, T_0100_2} :
             L[1] # L[2] /\ L[1] # L[3] /\ L[2] # L[3]}

\* the conversions of these texts
RebuildFacts == FactsOver(Closure(RebuildTexts, 1))

\* the instance is constructed from no item
InitRebuild == Init /\ arg = <<>>

\* set_ip_networks_list, lines 431-434
RebuildFrom(F, L) ==
    \E o \in Returning(process_list(F, L, TRUE, FALSE, <<>>, normalize_invalid_cidr), "None") :
        /\ Publish(o)
        /\ Called("set_ip_networks_list", L, NoneInt, o.ret, <<>>)

Rebuild ==
    /\ mutations = <<>>
    /\ \E L \in RebuildLists : RebuildFrom(RebuildFacts, L)

NextRebuild == Rebuild

SpecRebuild == InitRebuild /\ [][NextRebuild]_vars

-----------------------------------------------------------------------------
(* The overlap probe on the instances of several chunks.                    *)

\* the prefix lengths of the candidates
ProbePrefixes == {0, 1, 2, 4, 6, V6Bits - 1, V6Bits}

\* the candidates: every network of these prefix lengths
ProbeCidrs ==
    {Text(FALSE, FullV6(pv[2]).ip, <<Num(pv[1])>>) :
        pv \in {x \in ProbePrefixes \X (0..(Pow2(V6Bits) - 1)) :
                    x[2] % Pow2(V6Bits - x[1]) = 0}}

ProbeFacts == [x \in ProbeCidrs |-> [first_last |-> get_first_last_ip_cidr(x)]]

\* _find_cidr_overlap applied once to a candidate, lines 291-314
ProbeWith(F, c) ==
    LET o == find_cidr_overlap(F, c, cidrs)
    IN  /\ op' = "_find_cidr_overlap"
        /\ arg' = <<c>>
        /\ argInt' = NoneInt
        /\ result' = o.kind
        /\ match' = <<o.cidr>>
        /\ UNCHANGED <<cidrs, index, discarded_cidrs, normalize_invalid_cidr,
                       raise_on_error, mutations, lookup>>

FindCidrOverlap ==
    /\ op = "init"
    /\ \E c \in ProbeCidrs : ProbeWith(ProbeFacts, c)

NextOverlapProbe == FindCidrOverlap

SpecOverlapProbe == InitLookupCost /\ [][NextOverlapProbe]_vars

-----------------------------------------------------------------------------
(* The chunk size and the split, as functions of the number of entries.     *)

\* the numbers of entries that are split into chunks
SplitSizes ==
    {1, 2, 3, 50, MinChunkSize - 1, MinChunkSize, MinChunkSize + 1, MinChunkSize + 2,
     MinChunkSize + 9, MinChunkSize + 10, MinChunkSize + 11, MinChunkSize + 12,
     MinChunkSize + 20, MinChunkSize + 21, MinChunkSize + 27, MinChunkSize + 28}

\* the list sizes whose chunk size is asked, the largest ones beyond what
\* max_chunk_size balances
ChunkSizeInputs ==
    SplitSizes \cup
    {500, 1000, 9999, 1000000, MaxChunkSize * MaxChunkSize,
     MaxChunkSize * (MaxChunkSize + 1), MaxChunkSize * (MaxChunkSize + 1) + 1,
     MaxChunkSize * (MaxChunkSize + 4)}

\* lines 412-421 on n entries that survived validation and overlap removal
SplitOf(n) ==
    /\ Publish(Built(HostFacts(n), [kept |-> HostList(n), dropped |-> <<>>], <<>>))
    /\ Called("__process_list", HostList(n), NoneInt, "True", <<>>)

SplitEntries ==
    /\ op = "init"
    /\ \E n \in SplitSizes : SplitOf(n)

\* __find_balanced_chunk_size applied once, lines 259-274
FindBalancedChunkSize ==
    /\ op = "init"
    /\ \E n \in ChunkSizeInputs :
          /\ op' = "__find_balanced_chunk_size"
          /\ argInt' = n
          /\ lookup' = [pc |-> "sized", list_size |-> n,
                        chunk_size |-> find_balanced_chunk_size(n)]
          /\ UNCHANGED <<cidrs, index, discarded_cidrs, normalize_invalid_cidr,
                         raise_on_error, mutations, arg, result, match>>

InitChunking == Init /\ arg = <<>>

NextChunking == SplitEntries \/ FindBalancedChunkSize

SpecChunking == InitChunking /\ [][NextChunking]_vars

-----------------------------------------------------------------------------
(* add_ip_networks_list, given lists with several items that are new to the *)
(* index and apart from each other.                                          *)

BulkTexts ==
    {T_0000_1, T_0100_2, T_1000_1, T_1010_3, T_1011_1, T_9999_4, S_3_8, S_1_1, S_16_4}

BulkLists ==
    {<<T_1000_1>>, <<T_0000_1, T_1000_1>>, <<T_0100_2, T_1010_3>>,
     <<T_1010_3, T_0100_2, T_1011_1>>, <<S_3_8, T_1000_1>>, <<S_16_4, S_1_1>>,
     <<T_9999_4, T_0100_2>>, <<T_0000_1, T_0100_2>>}

\* the conversions of these texts
BulkFacts == FactsOver(Closure(BulkTexts, 2))

\* the instance is constructed from no item
InitBulkAdd == Init /\ arg = <<>>

BulkAddOf(F, L) ==
    \E o \in add_ip_networks_list(F, L) :
        /\ Publish(o)
        /\ Called("add_ip_networks_list", L, NoneInt, o.ret, <<>>)

BulkAdd ==
    /\ mutations = <<>>
    /\ \E L \in BulkLists :
          /\ Len(cidrs) + Len(L) <= MaxLen
          /\ BulkAddOf(BulkFacts, L)

NextBulkAdd == BulkAdd

SpecBulkAdd == InitBulkAdd /\ [][NextBulkAdd]_vars

-----------------------------------------------------------------------------
(* Vocabulary of the properties.                                            *)

\* the integer range <<first, last>> of a stored CIDR
RangeOf(c) == Facts[c].first_last

Disjoint(r1, r2) == r1[2] < r2[1] \/ r2[2] < r1[1]

\* the stored entries whose range holds q
Holders(q) == {i \in 1..Len(cidrs) : RangeOf(cidrs[i])[1] <= q /\ q <= RangeOf(cidrs[i])[2]}

NoOverlap ==
    \A i, j \in 1..Len(cidrs) : i # j => Disjoint(RangeOf(cidrs[i]), RangeOf(cidrs[j]))

SortedByStart(s) ==
    \A i \in 1..(Len(s) - 1) : RangeOf(s[i])[1] < RangeOf(s[i + 1])[1]

Lockstep ==
    /\ Flatten(list_chunks) = cidrs
    /\ Len(first_ip_chunks) = Len(list_chunks)
    /\ Len(last_ip_chunks) = Len(list_chunks)
    /\ Len(list_index) = Len(list_chunks)
    /\ \A c \in 1..Len(list_chunks) :
           /\ list_chunks[c] # <<>>
           /\ Len(first_ip_chunks[c]) = Len(list_chunks[c])
           /\ Len(last_ip_chunks[c]) = Len(list_chunks[c])
           /\ \A i \in 1..Len(list_chunks[c]) :
                  <<first_ip_chunks[c][i], last_ip_chunks[c][i]>> = RangeOf(list_chunks[c][i])
           /\ list_index[c] = first_ip_chunks[c][1]
    /\ (cidrs = <<>>) <=> (list_chunks = <<>> /\ first_ip_chunks = <<>>
                            /\ last_ip_chunks = <<>> /\ list_index = <<>>)

Succeeded == op \in Mutators \cup {"init"} /\ result \in {"True", "None"}

Reported(r) == op' \in Mutators /\ result' \in r


-----------------------------------------------------------------------------
(* C1 - C10.                                                                *)

\* what containment asks of a lookup of the integer q
Expected(q) ==
    IF Holders(q) = {} THEN Outcome("False", NoneText)
    ELSE Outcome("Match", cidrs[CHOOSE i \in Holders(q) : TRUE])

AllIntegers == 0..(Pow2(V6Bits) - 1)

\* C1 (under SpecSuccessful: every mutation so far succeeded): a lookup of any
\* integer q returns the stored CIDR whose range holds q, and False when q lies
\* outside every stored range.
C1_Containment == \A q \in AllIntegers : call(q, TRUE) = Expected(q)

\* C1, what the code does keep: containment for every integer q > 0.
C1_ContainmentAboveZero == \A q \in AllIntegers \ {0} : call(q, TRUE) = Expected(q)

C2_NoOverlapBooleanMode == ~raise_on_error => NoOverlap

\* C2, reached: a successful add_ip_network left two overlapping entries.
C2_Reached == Succeeded /\ ~NoOverlap

\* the candidate add_ip_network(x) tests: masked to its network address when
\* normalize mode is on (None when that fails), otherwise x stripped
Candidate(x) == IF normalize_invalid_cidr THEN get_valid_cidr(strip(x), TRUE) ELSE strip(x)

\* the candidate of x, completed with the default suffix, passes strict
\* validation, is not textually stored, and its range meets no stored range
Admissible(x) ==
    /\ ~IsNone(Candidate(x))
    /\ is_valid_cidr(normalize_cidr_suffix(Candidate(x)), TRUE)
    /\ ~Contains(cidrs, normalize_cidr_suffix(Candidate(x)))
    /\ \A i \in 1..Len(cidrs) :
           Disjoint(get_first_last_ip_cidr(normalize_cidr_suffix(Candidate(x))),
                    get_first_last_ip_cidr(cidrs[i]))

\* C3: in boolean mode add_ip_network(x) returns True exactly when the
\* candidate is admissible in the state it is called in, and False otherwise.
C3_AddVerdict ==
    [][(op' = "add_ip_network" /\ ~raise_on_error)
           => /\ result' \in {"True", "False"}
              /\ (result' = "True") <=> Admissible(arg'[1])]_vars

\* C3, reached: in normalize mode "1.0.1.1/1" was masked to "1.0.0.0/1" and
\* accepted beside another entry.
C3_Witness ==
    /\ op = "add_ip_network" /\ ~raise_on_error /\ normalize_invalid_cidr
    /\ arg = <<T_1011_1>> /\ result = "True"
    /\ Contains(cidrs, T_1000_1) /\ Len(cidrs) >= 2

\* C4: a boolean-mode add_ip_network(x) that returns False leaves the entry
\* list and the four index structures as they were, and the discard log is
\* exactly [x stripped].
C4_RejectedAddFrame ==
    [][(op' = "add_ip_network" /\ ~raise_on_error /\ result' = "False")
           => /\ cidrs' = cidrs
              /\ index' = index
              /\ discarded_cidrs' = <<strip(arg'[1])>>]_vars

\* C4, reached: " 1.0.0.0/1 " was rejected by a populated list.
C4_Witness ==
    /\ op = "add_ip_network" /\ ~raise_on_error /\ result = "False"
    /\ arg = <<T_1000_1_ws>> /\ cidrs # <<>> /\ discarded_cidrs = <<T_1000_1>>

\* C5: every mutating call is all-or-nothing in both modes: when it reports
\* failure (False or an exception) the entry list and the index are what they
\* were; when it reports success the list and the index built from it are in
\* place.
C5_AllOrNothing ==
    [][op' \in Mutators
           => IF result' \in {"False", "UnlimitedIPListException"}
              THEN cidrs' = cidrs /\ index' = index
              ELSE Lockstep']_vars

\* C5, what the code does keep: all-or-nothing as long as raise_on_error is off.
C5_AllOrNothingBooleanMode ==
    [][(op' \in Mutators /\ ~raise_on_error)
           => IF result' \in {"False", "UnlimitedIPListException"}
              THEN cidrs' = cidrs /\ index' = index
              ELSE Lockstep']_vars

\* C6: in every state between public calls the chunk structures are in
\* lockstep with the entry list.
C6_Lockstep == Lockstep

\* C6, what the code does keep: lockstep as long as raise_on_error is off.
C6_LockstepBooleanMode == ~raise_on_error => Lockstep

C7_SortedBooleanMode == ~raise_on_error => SortedByStart(cidrs)

\* the text q is no address: ip_to_int returns None
Unparseable(q) == ip_to_int(strip(q)) = NoneInt

\* C8: a lookup of an unparseable address text returns False and never raises,
\* in either mode, on an empty or a populated index.
C8_UnparseableLookupNeverRaises ==
    (op = "check_ipaddr" /\ Unparseable(arg[1])) => result = "False"

\* C8, amended: a lookup of an unparseable address text returns False in
\* boolean mode and, in raise_on_error mode, on an empty list; in
\* raise_on_error mode on a populated list it raises UnlimitedIPListException.
C8_UnparseableLookupByMode ==
    (op = "check_ipaddr" /\ Unparseable(arg[1]))
        => result = IF raise_on_error /\ cidrs # <<>>
                    THEN "UnlimitedIPListException" ELSE "False"

\* C8, reached: the lookup of "g" raised on a populated list.
C8_Witness ==
    /\ op = "check_ipaddr" /\ arg = <<Q_junk>> /\ raise_on_error
    /\ cidrs # <<>> /\ result = "UnlimitedIPListException"

\* C9: one switch decides how add_ip_network reports a rejection: with
\* raise_on_error it raises UnlimitedIPListException and never returns False,
\* whether normalize mode is on or off; without it, it returns False and never
\* raises.
C9_UniformPolicy ==
    (op = "add_ip_network" /\ result # "True")
        => result = IF raise_on_error THEN "UnlimitedIPListException" ELSE "False"

\* C9, what the code does keep: the switch is uniform when normalize mode is off.
C9_UniformPolicyWithoutNormalize ==
    (op = "add_ip_network" /\ result # "True" /\ ~normalize_invalid_cidr)
        => result = IF raise_on_error THEN "UnlimitedIPListException" ELSE "False"

\* the list s without the entry x
Without(s, x) == SelectSeq(s, LAMBDA e : e # x)

\* C10: remove_ip_network(x) looks up the stripped, suffix-completed text of x,
\* unmasked.  Stored: it returns True, the list loses exactly that entry (and
\* keeps its order when it was sorted) and the index is rebuilt from it.  Not
\* stored: it returns False and the list and the index stay as they were.
C10_Remove ==
    [][op' = "remove_ip_network"
           => IF Contains(cidrs, normalize_cidr_suffix(arg'[1]))
              THEN /\ result' = "True"
                   /\ Range(cidrs') = Range(cidrs) \ {normalize_cidr_suffix(arg'[1])}
                   /\ Len(cidrs') = Len(cidrs) - 1
                   /\ SortedByStart(cidrs)
                          => cidrs' = Without(cidrs, normalize_cidr_suffix(arg'[1]))
                   /\ Lockstep'
              ELSE /\ result' = "False"
                   /\ cidrs' = cidrs
                   /\ index' = index]_vars

\* C10, reached: " 1.0.0.0/1 " removed the stored "1.0.0.0/1" and left the rest.
C10_Witness ==
    /\ op = "remove_ip_network" /\ arg = <<T_1000_1_ws>> /\ result = "True"
    /\ cidrs # <<>> /\ ~Contains(cidrs, T_1000_1)

\* C10, reached as well: with "1.0.0.0/1" stored, "1.0.1.1/1" (the same network,
\* host bits set) was not found.
C10_UnmaskedKeyReached ==
    /\ op = "remove_ip_network" /\ arg = <<T_1011_1>> /\ result = "False"
    /\ Contains(cidrs, T_1000_1)

\* What remove_ip_network(x) does when it follows the call add_ip_network(x)
\* of this step: the removal applied to the instance the add leaves.
RemoveAfterAdd ==
    RemoveKeyFrom(Facts, normalize_cidr_suffix(arg'[1]), cidrs', discarded_cidrs',
                  normalize_invalid_cidr,
                  [cidrs |-> cidrs', list_chunks |-> list_chunks',
                   first_ip_chunks |-> first_ip_chunks', last_ip_chunks |-> last_ip_chunks',
                   list_index |-> list_index', discarded |-> discarded_cidrs', ret |-> "False"])

\* C11: when add_ip_network(x) returns True, a remove_ip_network(x) that
\* follows it returns True and leaves the stored list as it was before the add,
\* with either normalize setting.
C11_AddRemoveRoundTrip ==
    [][(op' = "add_ip_network" /\ result' = "True")
           => \A o \in RemoveAfterAdd : o.ret = "True" /\ o.cidrs = cidrs]_vars

\* C11, amended: the round trip holds when the entry the add stored is x itself,
\* stripped and completed with the default suffix (always so with normalize
\* off): the remove returns True, the entry is gone, the stored entries are
\* those before the add, in the same order when they were in ascending order.
\* When the add stored the masked or rewritten form of x, the remove returns
\* False and the entry stays.
C11_RoundTripOfStoredText ==
    [][(op' = "add_ip_network" /\ result' = "True")
           => \A o \in RemoveAfterAdd :
                  IF normalize_cidr_suffix(Candidate(arg'[1])) = normalize_cidr_suffix(arg'[1])
                  THEN /\ o.ret = "True"
                       /\ ~Contains(o.cidrs, normalize_cidr_suffix(arg'[1]))
                       /\ Range(o.cidrs) = Range(cidrs)
                       /\ SortedByStart(cidrs) => o.cidrs = cidrs
                  ELSE /\ o.ret = "False"
                       /\ o.cidrs = cidrs'
                       /\ Contains(cidrs', normalize_cidr_suffix(Candidate(arg'[1])))]_vars

\* C11, reached: " 1.0.0.0/1 " was added beside another entry, and its removal
\* finds the entry.
C11_Witness ==
    /\ op = "add_ip_network" /\ result = "True" /\ arg = <<T_1000_1_ws>>
    /\ Len(cidrs) >= 2 /\ Contains(cidrs, normalize_cidr_suffix(arg[1]))

\* C12: while the stored list is empty, every lookup (of a text or of an
\* integer, valid or malformed) answers False, every overlap probe answers no
\* conflict and every remove returns False and leaves the list empty, in
\* either error mode.
C12_EmptyIndex ==
    cidrs = <<>>
        => /\ \A q \in Queries \cup Inputs : call(ip_to_int(strip(q)), FALSE).kind = "False"
           /\ \A n \in QueryInts : call(n, TRUE).kind = "False"
           /\ \A x \in Inputs : find_cidr_overlap(Facts, x, cidrs).kind = "none"
           /\ \A x \in Inputs : \A o \in remove_ip_network(Facts, x) :
                  o.ret = "False" /\ o.cidrs = <<>>
           /\ \A L \in RemoveLists : \A o \in remove_ip_networks_list(Facts, L) :
                  o.ret = "False" /\ o.cidrs = <<>>

\* C12, reached: in raise_on_error mode a list emptied by a removal.
C12_Witness ==
    /\ cidrs = <<>> /\ raise_on_error
    /\ op = "remove_ip_network" /\ result = "True"

\* the permutations of the list s
Reorderings(s) == {[i \in 1..Len(s) |-> s[f[i]]] : f \in Orders(1..Len(s))}

\* C13: set_ip_networks_list(L) stores the list that rebuilding from any
\* permutation of L stores, under the same normalize setting: which of the
\* overlapping candidates is kept does not depend on the order of the input.
C13_OrderInvariance ==
    [][op' = "set_ip_networks_list"
           => \A P \in Reorderings(arg') :
                  \A o \in process_list(Facts, P, TRUE, FALSE, <<>>, normalize_invalid_cidr) :
                      o.cidrs = cidrs']_vars

\* C13, reached: of ["1::/1", "0001::/1"], two valid texts of one range, given
\* in this order with normalize off, "0001::/1" was kept.
C13_Witness ==
    /\ op = "set_ip_networks_list" /\ arg = <<S_u1_1, S_1_1>>
    /\ ~normalize_invalid_cidr /\ cidrs = <<S_1_1>>

\* C14: a lookup that runs beside one mutating call returns what it would
\* return on the index before the call or on the index after it.
C14_LookupSeesOneSnapshot ==
    (lookup.pc = "done" /\ mutations # <<>> /\ mutations[1].writes = <<>>)
        => lookup.result \in {mutations[1].before[lookup.q],
                              call(ip_to_int(strip(lookup.q)), FALSE)}

\* C14, what the code does keep: a lookup that no mutating call runs beside
\* returns the answer of the index as it is.
C14_LookupAlone ==
    (lookup.pc = "done" /\ mutations = <<>>)
        => lookup.result = call(ip_to_int(strip(lookup.q)), FALSE)

\* every call of the two threads has returned
AllReturned == Len(mutations) = MaxThreads /\ \A t \in 1..MaxThreads : mutations[t].pc = "done"

\* thread t's insert reported success, no other thread removed its entry, and
\* the entry is not stored
LostInsert(t) ==
    /\ mutations[t].name = "add_ip_network"
    /\ mutations[t].ret = "True"
    /\ ~Contains(cidrs, mutations[t].entry)
    /\ ~\E u \in 1..MaxThreads :
           /\ mutations[u].name = "remove_ip_network"
           /\ mutations[u].ret = "True"
           /\ mutations[u].entry = mutations[t].entry

\* C15: when the add/remove calls of two threads have returned, the stored
\* list holds no two overlapping entries and every insert that reported
\* success is stored, as after some sequential order of the calls.
C15_MutatorsSerialized ==
    AllReturned => NoOverlap /\ \A t \in 1..MaxThreads : ~LostInsert(t)

\* C15, what the code does keep: calls that do not run at the same time leave
\* no overlap and lose no insert.
C15_SerialCallsKeep ==
    (AllReturned /\ \A t \in 1..MaxThreads : mutations[t].serial)
        => NoOverlap /\ Lockstep /\ \A t \in 1..MaxThreads : ~LostInsert(t)

\* an address text of the IPv4 family (a dotted quad) or of the IPv6 family
IsV4Address(a) == a.sfx = <<>> /\ Len(a.ip) = 1 /\ a.ip[1].t = "d"
IsV6Address(a) == a.sfx = <<>> /\ ColonIn(a) /\ InetPton(a.ip) # NoneInt

\* the canonical text of an address in its own family
CanonicalForm(a) ==
    IF IsV4Address(a) THEN Text(FALSE, <<D(InetAton(a.ip))>>, <<>>)
    ELSE FullV6(InetPton(a.ip))

\* C16: for every IPv4 and IPv6 address a, int_to_ip of the integer ip_to_int
\* returned for a is the canonical text of a in a's own family, and that text
\* parses back to the same integer.
C16_RoundTrip ==
    [][(/\ op = "ip_to_int"
        /\ IsV4Address(arg[1]) \/ IsV6Address(arg[1])
        /\ op' = "int_to_ip"
        /\ <<argInt'>> = match)
           => /\ match' = <<CanonicalForm(arg[1])>>
              /\ ip_to_int(match'[1]) = argInt']_vars

\* C16, what the code does keep: the round trip is exact for every IPv4
\* address and for every IPv6 address above the IPv4 range.
C16_RoundTripAboveV4Range ==
    [][(/\ op = "ip_to_int"
        /\ IsV4Address(arg[1]) \/ (IsV6Address(arg[1]) /\ InetPton(arg[1].ip) > Pow2(V4Bits))
        /\ op' = "int_to_ip"
        /\ <<argInt'>> = match)
           => /\ match' = <<CanonicalForm(arg[1])>>
              /\ ip_to_int(match'[1]) = argInt']_vars

\* C17: when get_valid_cidr(x, normalize=True) returned a CIDR y,
\* get_valid_cidr(y, normalize=True) returns y again.
C17_NormalizeIdempotent ==
    [][(/\ op = "get_valid_cidr" /\ argInt = 1 /\ match # <<>>
        /\ op' = "get_valid_cidr" /\ argInt' = 1 /\ arg' = match)
           => match' = match]_vars

\* C17, what the code does keep: a normalized CIDR that is written in the
\* family of the text it was made from normalizes to itself.
C17_IdempotentWithinFamily ==
    [][(/\ op = "get_valid_cidr" /\ argInt = 1 /\ match # <<>>
        /\ DotIn(match[1]) = DotIn(arg[1])
        /\ op' = "get_valid_cidr" /\ argInt' = 1 /\ arg' = match)
           => match' = match]_vars

\* the address of a CIDR text parses, to this integer
AddressOf(x) == ip_to_int(IpPart(strip(x)))

\* the width of the family of the address of x
BitsOf(x) == IF InetAton(x.ip) # NoneInt THEN V4Bits ELSE V6Bits

PrefixInRange(x) ==
    /\ Len(x.sfx) = 1
    /\ x.sfx[1].ok
    /\ 0 <= x.sfx[1].n
    /\ x.sfx[1].n <= BitsOf(x)

\* what C18 says is_valid_cidr(x, strict) returns
ValidAsStated(x, strict) ==
    IF strict
    THEN /\ AddressOf(x) # NoneInt
         /\ PrefixInRange(x)
         /\ AndNot(AddressOf(x), Mask(x.sfx[1].n, BitsOf(x))) = 0
    ELSE /\ AddressOf(x) # NoneInt
         /\ x.sfx = <<>> \/ PrefixInRange(x)

\* C18: is_valid_cidr(x, strict=True) is true exactly when x has an explicit
\* prefix in range, a parseable address and no bit set outside the mask;
\* is_valid_cidr(x, strict=False) exactly when the address parses and the
\* prefix, if given, is in range.
C18_ValidityCharacterised ==
    op = "is_valid_cidr" => ((result = "True") <=> ValidAsStated(arg[1], argInt = 1))

\* C18, what the code does keep: the characterisation for every text whose
\* address the parser chosen by line 98 (a "." in the text: inet_aton) is the
\* one that parses it, and strict validity implies non-strict validity.
C18_CharacterisedForMatchingParser ==
    op = "is_valid_cidr"
        => /\ (DotIn(arg[1]) <=> InetAton(arg[1].ip) # NoneInt)
                  => ((result = "True") <=> ValidAsStated(arg[1], argInt = 1))
           /\ (argInt = 1 /\ result = "True") => is_valid_cidr(arg[1], FALSE)

\* the address texts a lookup is asked about, of both families
FamilyQueries == {Q_0101, Q_1011, Q_v6_3, Q_v6_200}

\* C19: a lookup of an IPv4 address answers no-match or an IPv4 CIDR, and a
\* lookup of an IPv6 address answers no-match or an IPv6 CIDR.
C19_AnswerOfSameFamily ==
    \A q \in FamilyQueries :
        call(ip_to_int(strip(q)), FALSE).kind = "Match"
            => (ColonIn(call(ip_to_int(strip(q)), FALSE).cidr) <=> ColonIn(q))

\* C20: a construction that leaves no valid entry signals failure to its
\* caller (a false result or an exception).
C20_EmptyConstructionSignalled ==
    (op = "init" /\ cidrs = <<>>) => result \in {"False", "UnlimitedIPListException"}

\* C20, what the code does keep: removing the only entry of the list returns
\* True and leaves the list empty.
C20_RemovingLastEntrySucceeds ==
    [][(/\ op' = "remove_ip_network"
        /\ Len(cidrs) = 1
        /\ cidrs[1] = normalize_cidr_suffix(arg'[1]))
           => result' = "True" /\ cidrs' = <<>>]_vars

-----------------------------------------------------------------------------
(* C21 - C30.                                                               *)

\* the number of binary digits of n: the most comparisons a binary search
\* makes in a list of n items
RECURSIVE BitLength(_)
BitLength(n) == IF n <= 0 THEN 0 ELSE 1 + BitLength(n \div 2)

\* the longest chunk
ChunkSize == IF list_chunks = <<>> THEN 0 ELSE Len(list_chunks[1])

\* C21: a lookup makes no more comparisons than two binary searches, one in
\* the chunk index and one in a single chunk; on an index of several chunks
\* that is fewer than the number of entries.
C21_LookupCost ==
    lookup.pc = "done"
        => /\ lookup.comparisons <= BitLength(Len(list_index)) + BitLength(ChunkSize)
           /\ Len(cidrs) > MinChunkSize => lookup.comparisons < Len(cidrs) \div 4
           /\ lookup.result.kind = "Match" <=> lookup.q % 2 = 1

C21_Witness ==
    /\ lookup.pc = "done"
    /\ Len(cidrs) = MinChunkSize + 20
    /\ Len(list_index) > 1
    /\ lookup.result.kind = "Match"
    /\ lookup.comparisons = BitLength(Len(list_index)) + BitLength(ChunkSize)

\* the integer range of a CIDR text
RangeOfText(c) == get_first_last_ip_cidr(c)

\* the place in the scan order S of the last entry before place i that is in
\* the list kept
LastKeptBefore(S, kept, i) ==
    CHOOSE j \in 1..(i - 1) :
        /\ Contains(kept, S[j])
        /\ \A k \in (j + 1)..(i - 1) : ~Contains(kept, S[k])

\* kept and log are what the stated scan makes of the candidates in the order S
ResolvedAsStated(S, kept, log) ==
    /\ \A i \in 1..(Len(S) - 1) : RangeOfText(S[i])[1] <= RangeOfText(S[i + 1])[1]
    /\ Contains(kept, S[1])
    /\ \A i \in 2..Len(S) :
           Contains(kept, S[i])
               <=> RangeOfText(S[i])[1] > RangeOfText(S[LastKeptBefore(S, kept, i)])[2]
    /\ kept = SelectSeq(S, LAMBDA c : Contains(kept, c))
    /\ \A i \in 1..Len(S) : ~Contains(kept, S[i]) => Contains(log, S[i])
    /\ Len(log) = Len(S) - Len(kept)

\* C22: a rebuild of valid candidates keeps, in ascending order of range
\* start, the first candidate and every candidate that starts after the end
\* of the last kept one; the others are in the discard log; the kept entries
\* are pairwise disjoint, and every discarded candidate meets a kept entry.
C22_OverlapResolution ==
    [][op' = "set_ip_networks_list"
           => /\ \E S \in Reorderings(arg') : ResolvedAsStated(S, cidrs', discarded_cidrs')
              /\ \A i, j \in 1..Len(cidrs') :
                     i # j => Disjoint(RangeOfText(cidrs'[i]), RangeOfText(cidrs'[j]))
              /\ \A c \in Range(arg') :
                     ~Contains(cidrs', c)
                         => \E k \in Range(cidrs') : ~Disjoint(RangeOfText(c), RangeOfText(k))]_vars

\* C22, reached: of "0.0.0.0/1", "0.1.0.0/3" and "0.1.1.0/3" the first was
\* kept and the two inside it were discarded, the second not shielding the
\* third.
C22_Witness ==
    /\ op = "set_ip_networks_list"
    /\ arg = <<T_0110_3, T_0100_3, T_0000_1>>
    /\ cidrs = <<T_0000_1>>
    /\ discarded_cidrs = <<T_0100_3, T_0110_3>>


\* C23: on a sorted, overlap-free index the overlap probe answers with a
\* stored entry whose range intersects the candidate's whenever one does, and
\* with no conflict otherwise, whatever the number of chunks and the
\* candidate's prefix length
Intersecting(c) ==
    {i \in 1..Len(cidrs) : ~Disjoint(RangeOfText(cidrs[i]), RangeOfText(c))}

C23_ProbeNeverMisses ==
    op = "_find_cidr_overlap" =>
        IF Intersecting(arg[1]) = {}
        THEN result = "none"
        ELSE /\ result = "hit"
             /\ \E i \in Intersecting(arg[1]) : match = <<cidrs[i]>>

\* a candidate starting after the last entry of its chunk and reaching the
\* first entry of the next one, on an index of several chunks
C23_Witness ==
    /\ op = "_find_cidr_overlap"
    /\ Len(first_ip_chunks) > 2
    /\ result = "hit"
    /\ \E k \in 2..Len(list_index) :
          /\ RangeOfText(arg[1])[1] < list_index[k]
          /\ RangeOfText(arg[1])[1] > list_index[k - 1]
          /\ match = <<list_chunks[k][1]>>


\* C24: n entries get the chunk size n when n <= 100, and otherwise the
\* smallest size in 1..5000 within 1 of the number of chunks it makes (the
\* smallest size nearest to it when there is none); the split makes
\* ceil(n / C) chunks, all of C entries but the last, which has 1 to C
ChunkDiff(n, size) == Abs(size - CeilDiv(n, size))

ChunkSizeAsStated(n, size) ==
    IF n <= MinChunkSize THEN size = n
    ELSE /\ size \in 1..MaxChunkSize
         /\ IF \E other \in 1..MaxChunkSize : ChunkDiff(n, other) <= 1
            THEN /\ ChunkDiff(n, size) <= 1
                 /\ \A other \in 1..(size - 1) : ChunkDiff(n, other) > 1
            ELSE /\ \A other \in 1..MaxChunkSize : ChunkDiff(n, size) <= ChunkDiff(n, other)
                 /\ \A other \in 1..(size - 1) : ChunkDiff(n, other) > ChunkDiff(n, size)

SplitAsStated(chunks, n, size) ==
    /\ Len(chunks) = CeilDiv(n, size)
    /\ \A k \in 1..(Len(chunks) - 1) : Len(chunks[k]) = size
    /\ Len(chunks[Len(chunks)]) \in 1..size
    /\ \A k \in 1..Len(chunks) : chunks[k] # <<>>

C24_ChunkSizeAndSplit ==
    /\ op = "__find_balanced_chunk_size" =>
          ChunkSizeAsStated(lookup.list_size, lookup.chunk_size)
    /\ op = "__process_list" =>
          /\ ChunkSizeAsStated(Len(cidrs), ChunkSize)
          /\ SplitAsStated(list_chunks, Len(cidrs), ChunkSize)
          /\ SplitAsStated(first_ip_chunks, Len(cidrs), ChunkSize)
          /\ SplitAsStated(last_ip_chunks, Len(cidrs), ChunkSize)

\* more than 100 entries split into several chunks, the last one shorter
C24_Witness ==
    /\ op = "__process_list"
    /\ Len(cidrs) > MinChunkSize
    /\ Len(list_chunks) > 1
    /\ Len(list_chunks[Len(list_chunks)]) < ChunkSize


\* a text that names a network at all: its address parses and its prefix, if
\* given, is in range
NamesNetwork(x) == is_valid_cidr(normalize_cidr_suffix(strip(x)), FALSE)

\* item i of L is strictly valid, is not stored, and its range meets neither a
\* stored entry nor another item of L
FreshItem(L, i) ==
    /\ is_valid_cidr(L[i], TRUE)
    /\ ~Contains(cidrs, L[i])
    /\ \A k \in 1..Len(cidrs) : Disjoint(RangeOfText(L[i]), RangeOfText(cidrs[k]))
    /\ \A j \in 1..Len(L) :
           (j # i /\ NamesNetwork(L[j]))
               => Disjoint(RangeOfText(L[i]),
                           RangeOfText(normalize_cidr_suffix(strip(L[j]))))

\* C25: after add_ip_networks_list(L), in either error mode, every item of L
\* that is strictly valid, was not stored and met neither a stored entry nor
\* another item of L is stored and is the answer of every lookup in its range.
C25_FreshItemsStored ==
    [][op' = "add_ip_networks_list"
           => \A i \in 1..Len(arg') :
                  FreshItem(arg', i)
                      => /\ Contains(cidrs', arg'[i])
                         /\ \A q \in RangeOfText(arg'[i])[1]..RangeOfText(arg'[i])[2] :
                                call(q, TRUE)' = Outcome("Match", arg'[i])]_vars

\* C25, what the code does keep: in boolean mode every such item is stored,
\* but for the IPv6 items of normalize mode whose address is within the IPv4
\* range.
C25_FreshItemsStoredBooleanMode ==
    [][(op' = "add_ip_networks_list" /\ ~raise_on_error)
           => \A i \in 1..Len(arg') :
                  (/\ FreshItem(arg', i)
                   /\ (normalize_invalid_cidr /\ ColonIn(arg'[i]))
                          => RangeOfText(arg'[i])[1] > Pow2(V4Bits))
                      => Contains(cidrs', arg'[i])]_vars

\* C25, what the code does keep as well: in boolean mode the items stored are
\* the answer of the lookups of every address above 0 of their range.
C25_StoredItemsFound ==
    (op = "add_ip_networks_list" /\ ~raise_on_error)
        => \A i \in 1..Len(arg) :
               Contains(cidrs, arg[i])
                   => \A q \in RangeOfText(arg[i])[1]..RangeOfText(arg[i])[2] :
                          q > 0 => call(q, TRUE) = Outcome("Match", arg[i])


\* the text under which the item x is stored when it is accepted
StoredForm(x) == normalize_cidr_suffix(Candidate(x))

\* the item x passes the validation of the call
ValidItem(x) ==
    /\ ~IsBlank(strip(x))
    /\ ~IsNone(Candidate(x))
    /\ is_valid_cidr(StoredForm(x), TRUE)

\* the texts under which the discard log may name the item x
LoggedForms(x) ==
    {strip(x), normalize_cidr_suffix(strip(x))}
        \cup (IF IsNone(Candidate(x)) THEN {} ELSE {StoredForm(x)})

\* item i of L was rejected as invalid, as overlapping (valid and not stored
\* after the call) or, by an add, as a duplicate of an entry stored before
RejectedItem(L, i, before, after, adds) ==
    /\ ~IsBlank(strip(L[i]))
    /\ \/ ~ValidItem(L[i])
       \/ ~Contains(after, StoredForm(L[i]))
       \/ adds /\ Contains(before, StoredForm(L[i]))

\* item i of L may be in the log: it was rejected, or it is blank, or an add
\* met it a second time in L
LoggableItem(L, i, before, after, adds) ==
    \/ RejectedItem(L, i, before, after, adds)
    \/ IsBlank(strip(L[i]))
    \/ adds /\ \E j \in 1..(i - 1) : ValidItem(L[j]) /\ StoredForm(L[j]) = StoredForm(L[i])

\* the log names rejected items of L only, and every rejected item of L
LogAsStated(L, before, after, log, adds) ==
    /\ \A d \in Range(log) :
           \E i \in 1..Len(L) :
               LoggableItem(L, i, before, after, adds) /\ d \in LoggedForms(L[i])
    /\ \A i \in 1..Len(L) :
           RejectedItem(L, i, before, after, adds)
               => LoggedForms(L[i]) \cap Range(log) # {}

\* C26: in boolean mode, after the constructor, set_ip_networks_list,
\* add_ip_network or add_ip_networks_list the discard log holds the candidates
\* rejected during that call (invalid, overlapping and, for the adds,
\* duplicates of stored entries): none of an earlier call, and none missing.
C26_DiscardLogExact ==
    /\ (op = "init" /\ ~raise_on_error)
           => LogAsStated(arg, <<>>, cidrs, discarded_cidrs, FALSE)
    /\ [][~raise_on_error
             => /\ op' = "set_ip_networks_list"
                    => LogAsStated(arg', <<>>, cidrs', discarded_cidrs', FALSE)
                /\ op' \in {"add_ip_network", "add_ip_networks_list"}
                    => LogAsStated(arg', cidrs, cidrs', discarded_cidrs', TRUE)]_vars


\* C26, reached: of the new items "1.0.0.0/1" and "1.0.1.0/3", given together,
\* the second was dropped by the trailing rebuild and is alone in the log.
C26_Witness ==
    /\ op = "add_ip_networks_list" /\ ~raise_on_error
    /\ arg = <<T_1000_1, T_1010_3>>
    /\ Contains(cidrs, T_1000_1)
    /\ discarded_cidrs = <<T_1010_3>>


\* C27: int_to_ip returns a text for every integer of 0 .. 2^128 - 1, a dotted
\* quad exactly below 2^32 and the full IPv6 text from 2^32 on, and None only
\* outside that range; so the integer ip_to_int returns for a valid address is
\* a valid iplong.
C27_IntToIpTotal ==
    /\ op = "int_to_ip"
           => IF 0 <= argInt /\ argInt < Pow2(V6Bits)
              THEN /\ result = "str"
                   /\ match = <<IF argInt < Pow2(V4Bits)
                                THEN Text(FALSE, <<D(argInt)>>, <<>>)
                                ELSE FullV6(argInt)>>
              ELSE result = "None"
    /\ (op = "ip_to_int" /\ result = "int") => is_valid_iplong(match[1])

\* C27, what the code does keep: the same for every integer but 2^32.
C27_IntToIpButAtBoundary ==
    /\ (op = "int_to_ip" /\ argInt # Pow2(V4Bits))
           => IF 0 <= argInt /\ argInt < Pow2(V6Bits)
              THEN /\ result = "str"
                   /\ match = <<IF argInt < Pow2(V4Bits)
                                THEN Text(FALSE, <<D(argInt)>>, <<>>)
                                ELSE FullV6(argInt)>>
              ELSE result = "None"
    /\ (op = "ip_to_int" /\ result = "int" /\ match # <<Pow2(V4Bits)>>)
           => is_valid_iplong(match[1])


\* the list after holds the entries of the list before and the one new entry
\* e, which stands at its place in the ascending order of range starts
InsertedSorted(before, after, e) ==
    /\ ~Contains(before, e)
    /\ Len(after) = Len(before) + 1
    /\ Range(after) = Range(before) \cup {e}
    /\ \A k \in 1..Len(after) :
           after[k] = e
               => /\ k > 1 => RangeOfText(after[k - 1])[1] < RangeOfText(e)[1]
                  /\ k < Len(after) => RangeOfText(e)[1] < RangeOfText(after[k + 1])[1]

\* the entry add_ip_network(x) is to store
NewEntry(x) ==
    IF normalize_invalid_cidr THEN get_valid_cidr(strip(x), TRUE)
    ELSE normalize_cidr_suffix(strip(x))

\* C28: a successful add_ip_network(x) leaves the previous entries plus one
\* new entry at its sorted position: get_valid_cidr(x, normalize=True) in
\* normalize mode, otherwise x with the default suffix; every previous entry
\* is still there.
C28_AddInsertsOne ==
    [][(op' = "add_ip_network" /\ result' = "True")
           => /\ InsertedSorted(cidrs, cidrs', NewEntry(arg'[1]))
              /\ \A c \in Range(cidrs) : Contains(cidrs', c)]_vars

\* C28, in boolean mode the previous entries also keep their order.
C28_OrderKeptBooleanMode ==
    [][(op' = "add_ip_network" /\ result' = "True" /\ ~raise_on_error)
           => Without(cidrs', NewEntry(arg'[1])) = cidrs]_vars

\* C28, reached: in normalize mode "1.0.1.1/1" was stored as "1.0.0.0/1" after
\* "0.0.0.0/1".
C28_Witness ==
    /\ op = "add_ip_network" /\ result = "True" /\ normalize_invalid_cidr
    /\ arg = <<T_1011_1>>
    /\ cidrs = <<T_0000_1, T_1000_1>>


\* two CIDR texts of one address family
SameFamily(c, d) == ColonIn(c) <=> ColonIn(d)

\* a stored entry of the family of the CIDR c whose range meets the range of c
SameFamilyConflict(c, stored) ==
    \E k \in Range(stored) :
        SameFamily(k, c) /\ ~Disjoint(RangeOfText(k), RangeOfText(c))

\* C29: entries of the two families never conflict: a valid candidate that a
\* rebuild discards, or that add_ip_network rejects without its being stored,
\* meets an entry of its own family.
C29_NoCrossFamilyConflict ==
    /\ (op \in {"init", "set_ip_networks_list"} /\ ~raise_on_error)
           => \A i \in 1..Len(arg) :
                  (ValidItem(arg[i]) /\ ~Contains(cidrs, StoredForm(arg[i])))
                      => SameFamilyConflict(StoredForm(arg[i]), cidrs)
    /\ [][(/\ op' = "add_ip_network" /\ ~raise_on_error /\ result' = "False"
           /\ ValidItem(arg'[1])
           /\ ~Contains(cidrs, StoredForm(arg'[1])))
              => SameFamilyConflict(StoredForm(arg'[1]), cidrs)]_vars

\* C29, what the code does keep: such a candidate meets a stored entry, of
\* either family.
C29_ConflictWithSomeEntry ==
    /\ (op \in {"init", "set_ip_networks_list"} /\ ~raise_on_error)
           => \A i \in 1..Len(arg) :
                  (ValidItem(arg[i]) /\ ~Contains(cidrs, StoredForm(arg[i])))
                      => \E k \in Range(cidrs) :
                             ~Disjoint(RangeOfText(k), RangeOfText(StoredForm(arg[i])))
    /\ [][(/\ op' = "add_ip_network" /\ ~raise_on_error /\ result' = "False"
           /\ ValidItem(arg'[1])
           /\ ~Contains(cidrs, StoredForm(arg'[1])))
              => \E k \in Range(cidrs) :
                     ~Disjoint(RangeOfText(k), RangeOfText(StoredForm(arg'[1])))]_vars


\* C30: add_ip_network and add_ip_networks_list never remove or replace a
\* stored entry: whatever the call returns or raises, every entry stored
\* before it is stored after it.
C30_AddsKeepStoredEntries ==
    [][op' \in {"add_ip_network", "add_ip_networks_list"}
           => \A c \in Range(cidrs) : Contains(cidrs', c)]_vars

\* C30, what the code does keep: the same as long as raise_on_error is off.
C30_AddsKeepStoredEntriesBooleanMode ==
    [][(op' \in {"add_ip_network", "add_ip_networks_list"} /\ ~raise_on_error)
           => \A c \in Range(cidrs) : Contains(cidrs', c)]_vars

====
